---------------------------- MODULE Spec2Model ----------------------------
(***************************************************************************)
(* Model of the MCP-DDS gateway's rate limiting core (rate_limiter.py),    *)
(* of the gateway's tool handlers (mcp_gateway.py) with the bus adapter's  *)
(* subscription registry (dds_manager_cyclone.py), and of the agent client *)
(* with its listener tasks (agent_client.py).                              *)
(*                                                                         *)
(* Time is the wall clock read by time.time(), in whole seconds.  Token    *)
(* counts are floats in the code; the model keeps them exactly, in units   *)
(* of 1/60 token, so that a rate of r requests per minute (r / 60.0 tokens *)
(* per second) adds exactly r units per second.                            *)
(***************************************************************************)
EXTENDS Integers, Sequences, FiniteSets, TLC

\* ------------------------------------------------------------------ bounds
MaxTime == 2
MaxCost == 2
MaxOps == 3
MaxBurst == 4
MaxClock == 1
MaxSubs == 2
MaxBusCalls == 3
MaxSamples == 1
MaxAdjust == 4
MaxWrites == 31
MaxCalls == 3

\* ------------------------------------------------------- program constants
\* requests per minute -> tokens per second: "/ 60.0"
Unit == 60
\* args.get("max_samples", 10)
DefaultMaxSamples == 10

Agents == {"agent1", "agent2"}
Costs == 1..MaxCost
\* RateLimitConfig values the model draws from (requests per minute)
RequestsPerMinute == {0, 60}
PerAgentLimits == {0, 30}
BurstSizes == 1..MaxBurst

VARIABLES
    now,             \* time.time()
    config,          \* RateLimiter.config : RateLimitConfig
    enabled,         \* RateLimiter.enabled
    global_limiter,  \* RateLimiter.global_limiter : TokenBucket
    agent_limiters,  \* RateLimiter.agent_limiters : Dict[str, TokenBucket]
    total_requests,  \* RateLimiter.total_requests
    total_rejected,  \* RateLimiter.total_rejected
    agent_requests,  \* RateLimiter.agent_requests : defaultdict(int)
    agent_rejected,  \* RateLimiter.agent_rejected : defaultdict(int)
    result,          \* the last call made on the limiter and how it ended
    costs_used       \* history: the costs of the checks made while enabled

rl_vars == <<now, config, enabled, global_limiter, agent_limiters,
             total_requests, total_rejected, agent_requests, agent_rejected,
             result, costs_used>>

Min(a, b) == IF a <= b THEN a ELSE b

\* ------------------------------------------------------------ TokenBucket
\* (variant: a new bucket starts empty)
TokenBucketEmpty(rate, capacity, t) ==
    [rate |-> rate, capacity |-> capacity, tokens |-> 0, last_update |-> t]

\* (variant: a new bucket starts one token short of its capacity)
TokenBucketShort(rate, capacity, t) ==
    [rate |-> rate, capacity |-> capacity,
     tokens |-> (capacity - 1) * Unit, last_update |-> t]

\* TokenBucket.__init__(rate, capacity) at time t; rate in units per second
TokenBucket(rate, capacity, t) ==
    [rate |-> rate, capacity |-> capacity,
     tokens |-> capacity * Unit, last_update |-> t]

\* (variant: the refill is not capped at capacity)
RefillUncapped(b, t) ==
    [b EXCEPT !.tokens = b.tokens + (t - b.last_update) * b.rate,
              !.last_update = t]

\* the refill at the head of consume
Refill(b, t) ==
    [b EXCEPT !.tokens = Min(b.capacity * Unit,
                             b.tokens + (t - b.last_update) * b.rate),
              !.last_update = t]

\* (variant: a consume that fails empties the bucket)
TakeTokensDraining(b, n) ==
    IF b.tokens >= n * Unit
    THEN [bucket |-> [b EXCEPT !.tokens = b.tokens - n * Unit], ok |-> TRUE]
    ELSE [bucket |-> [b EXCEPT !.tokens = 0], ok |-> FALSE]

\* the test-and-subtract of consume, on a refilled bucket
TakeTokens(b, n) ==
    IF b.tokens >= n * Unit
    THEN [bucket |-> [b EXCEPT !.tokens = b.tokens - n * Unit], ok |-> TRUE]
    ELSE [bucket |-> b, ok |-> FALSE]

\* TokenBucket.consume(tokens=n) at time t, run under the bucket's lock
consume(b, t, n) == TakeTokens(Refill(b, t), n)

\* TokenBucket.get_wait_time(n) as the fraction num/den seconds;
\* den = 0 is the division by a zero rate (ZeroDivisionError)
get_wait_time(b, n) ==
    IF b.tokens >= n * Unit
    THEN [num |-> 0, den |-> 1]
    ELSE [num |-> n * Unit - b.tokens, den |-> b.rate]

\* the wait time as check_rate_limit reports it, f"{wait_time:.2f}", in
\* hundredths of a second: num/den seconds rounded to two decimals (an exact
\* tie is rounded up here; the inputs of the model produce none)
reported_wait(b, n) ==
    LET w == get_wait_time(b, n)
    IN  (200 * w.num + w.den) \div (2 * w.den)

\* ------------------------------------------------------------ RateLimiter
\* defaultdict(int) read and "+= 1"
Get(d, k) == IF k \in DOMAIN d THEN d[k] ELSE 0
Incr(d, k) ==
    [x \in DOMAIN d \cup {k} |-> IF x = k THEN Get(d, k) + 1 ELSE d[x]]

\* RateLimiter.per_agent_rate, in units per second
per_agent_rate == config.per_agent_limit

\* (variant: the agents' buckets get the whole burst size)
per_agent_capacity_full == config.burst_size

\* RateLimiter.per_agent_capacity: int(config.burst_size / 2)
per_agent_capacity == config.burst_size \div 2

\* (variant: one bucket serves every agent)
_get_agent_limiter_shared(limiters, agent_name, t) ==
    IF limiters = <<>>
    THEN [x \in {agent_name} |->
            TokenBucket(config.per_agent_limit, config.burst_size \div 2, t)]
    ELSE [x \in DOMAIN limiters \cup {agent_name} |->
            limiters[CHOOSE y \in DOMAIN limiters : TRUE]]

\* (variant: every call makes a new bucket for the agent)
_get_agent_limiter_fresh(limiters, agent_name, t) ==
    [x \in DOMAIN limiters \cup {agent_name} |->
        IF x = agent_name
        THEN TokenBucket(config.per_agent_limit, config.burst_size \div 2, t)
        ELSE limiters[x]]

\* RateLimiter._get_agent_limiter: get or create the agent's bucket
_get_agent_limiter(limiters, agent_name, t) ==
    IF agent_name \notin DOMAIN limiters
    THEN [x \in DOMAIN limiters \cup {agent_name} |->
            IF x = agent_name
            THEN TokenBucket(per_agent_rate, per_agent_capacity, t)
            ELSE limiters[x]]
    ELSE limiters

\* what the rejection branch raises: the message formats get_wait_time
Raised(b, n) ==
    IF get_wait_time(b, n).den = 0 THEN "ZeroDivisionError"
    ELSE "RateLimitExceeded"

Call(op, agent_name, tokens, outcome, raised) ==
    [op |-> op, agent |-> agent_name, tokens |-> tokens,
     outcome |-> outcome, raised |-> raised]

\* check_rate_limit, "if not self.enabled: return"
WhenDisabled(agent_name, tokens) ==
    /\ result' = Call("check", agent_name, tokens, "disabled", "none")
    /\ UNCHANGED <<now, config, enabled, global_limiter, agent_limiters,
                   total_requests, total_rejected, agent_requests,
                   agent_rejected>>

\* (variant: only the total is counted)
CountRequestTotalOnly(agent_name) ==
    /\ total_requests' = total_requests + 1
    /\ agent_requests' = agent_requests

\* check_rate_limit, the request counters
CountRequest(agent_name) ==
    /\ total_requests' = total_requests + 1
    /\ agent_requests' = Incr(agent_requests, agent_name)

\* (variant: the agent's bucket is fetched and charged before the global
\* rejection is raised)
GlobalRejectedChargingAgent(agent_name, tokens, g) ==
    /\ global_limiter' = g
    /\ agent_limiters' =
          LET limiters == _get_agent_limiter(agent_limiters, agent_name, now)
          IN  [limiters EXCEPT ![agent_name] =
                  consume(limiters[agent_name], now, tokens).bucket]
    /\ total_rejected' = total_rejected + 1
    /\ agent_rejected' = Incr(agent_rejected, agent_name)
    /\ result' = Call("check", agent_name, tokens, "global",
                      Raised(g, tokens))

\* check_rate_limit, the branch taken when the global bucket rejects;
\* g is the global bucket after its consume
GlobalRejected(agent_name, tokens, g) ==
    /\ global_limiter' = g
    /\ agent_limiters' = agent_limiters
    /\ total_rejected' = total_rejected + 1
    /\ agent_rejected' = Incr(agent_rejected, agent_name)
    /\ result' = Call("check", agent_name, tokens, "global",
                      Raised(g, tokens))

\* (variant: the global tokens are given back when the agent's bucket
\* rejects)
AgentRejectedRefunding(agent_name, tokens, g, limiters, a) ==
    /\ global_limiter' = [g EXCEPT !.tokens = g.tokens + tokens * Unit]
    /\ agent_limiters' = [limiters EXCEPT ![agent_name] = a]
    /\ total_rejected' = total_rejected + 1
    /\ agent_rejected' = Incr(agent_rejected, agent_name)
    /\ result' = Call("check", agent_name, tokens, "agent",
                      Raised(a, tokens))

\* check_rate_limit, the branch taken when the agent's bucket rejects;
\* g is the global bucket after its consume, limiters the map after
\* _get_agent_limiter, a the agent's bucket after its consume
AgentRejected(agent_name, tokens, g, limiters, a) ==
    /\ global_limiter' = g
    /\ agent_limiters' = [limiters EXCEPT ![agent_name] = a]
    /\ total_rejected' = total_rejected + 1
    /\ agent_rejected' = Incr(agent_rejected, agent_name)
    /\ result' = Call("check", agent_name, tokens, "agent",
                      Raised(a, tokens))

\* check_rate_limit, both buckets admitted
Passed(agent_name, tokens, g, limiters, a) ==
    /\ global_limiter' = g
    /\ agent_limiters' = [limiters EXCEPT ![agent_name] = a]
    /\ UNCHANGED <<total_rejected, agent_rejected>>
    /\ result' = Call("check", agent_name, tokens, "passed", "none")

\* the per-agent stage of check_rate_limit
AgentStage(agent_name, tokens, g) ==
    LET limiters == _get_agent_limiter(agent_limiters, agent_name, now)
        a == consume(limiters[agent_name], now, tokens)
    IN  IF ~a.ok
        THEN AgentRejected(agent_name, tokens, g, limiters, a.bucket)
        ELSE Passed(agent_name, tokens, g, limiters, a.bucket)

\* check_rate_limit past the enabled test: count, then the global bucket,
\* then the agent's bucket
Enforce(agent_name, tokens) ==
    /\ total_requests < MaxOps
    /\ CountRequest(agent_name)
    /\ UNCHANGED <<now, config, enabled>>
    /\ LET g == consume(global_limiter, now, tokens)
       IN  IF ~g.ok
           THEN GlobalRejected(agent_name, tokens, g.bucket)
           ELSE AgentStage(agent_name, tokens, g.bucket)

\* (variant: the enabled flag is not consulted)
check_rate_limit_always(agent_name, tokens) == Enforce(agent_name, tokens)

\* RateLimiter.check_rate_limit(agent_name, tokens)
check_rate_limit(agent_name, tokens) ==
    IF ~enabled
    THEN WhenDisabled(agent_name, tokens)
    ELSE Enforce(agent_name, tokens)

\* RateLimiter.disable()
disable ==
    /\ enabled' = FALSE
    /\ result' = Call("disable", "", 0, "", "none")
    /\ UNCHANGED <<now, config, global_limiter, agent_limiters,
                   total_requests, total_rejected, agent_requests,
                   agent_rejected>>

\* (variant: enabling starts over from full buckets)
enable_resetting ==
    /\ enabled' = TRUE
    /\ result' = Call("enable", "", 0, "", "none")
    /\ global_limiter' =
          [global_limiter EXCEPT !.tokens = global_limiter.capacity * Unit]
    /\ agent_limiters' =
          [a \in DOMAIN agent_limiters |->
              [agent_limiters[a] EXCEPT
                  !.tokens = agent_limiters[a].capacity * Unit]]
    /\ UNCHANGED <<now, config, total_requests, total_rejected,
                   agent_requests, agent_rejected>>

\* RateLimiter.enable()
enable ==
    /\ enabled' = TRUE
    /\ result' = Call("enable", "", 0, "", "none")
    /\ UNCHANGED <<now, config, global_limiter, agent_limiters,
                   total_requests, total_rejected, agent_requests,
                   agent_rejected>>

\* a defaultdict(int) after each key in keys was read
WithKeys(d, keys) == [x \in DOMAIN d \cup keys |-> Get(d, x)]

\* RateLimiter.get_metrics(): the agent_stats part reads both counters of
\* every agent that has a request count or a bucket
get_metrics ==
    LET all_agents == DOMAIN agent_requests \cup DOMAIN agent_limiters
    IN  /\ agent_requests' = WithKeys(agent_requests, all_agents)
        /\ agent_rejected' = WithKeys(agent_rejected, all_agents)
        /\ result' = Call("get_metrics", "", 0, "", "none")
        /\ UNCHANGED <<now, config, enabled, global_limiter, agent_limiters,
                       total_requests, total_rejected>>

\* (variant: only the two totals are reset)
reset_metrics_totals ==
    /\ total_requests' = 0
    /\ total_rejected' = 0
    /\ result' = Call("reset_metrics", "", 0, "", "none")
    /\ UNCHANGED <<now, config, enabled, global_limiter, agent_limiters,
                   agent_requests, agent_rejected>>

\* RateLimiter.reset_metrics()
reset_metrics ==
    /\ total_requests' = 0
    /\ total_rejected' = 0
    /\ agent_requests' = <<>>
    /\ agent_rejected' = <<>>
    /\ result' = Call("reset_metrics", "", 0, "", "none")
    /\ UNCHANGED <<now, config, enabled, global_limiter, agent_limiters>>

\* RateLimiter.get_agent_stats(agent_name): reads both counters of the agent
get_agent_stats(agent_name) ==
    /\ agent_requests' = WithKeys(agent_requests, {agent_name})
    /\ agent_rejected' = WithKeys(agent_rejected, {agent_name})
    /\ result' = Call("get_agent_stats", agent_name, 0, "", "none")
    /\ UNCHANGED <<now, config, enabled, global_limiter, agent_limiters,
                   total_requests, total_rejected>>

\* the wall clock advances by one second
Tick ==
    /\ now < MaxTime
    /\ now' = now + 1
    /\ UNCHANGED <<config, enabled, global_limiter, agent_limiters,
                   total_requests, total_rejected, agent_requests,
                   agent_rejected, result>>

\* the RateLimitConfig values the model draws from
Configs ==
    [requests_per_minute : RequestsPerMinute, burst_size : BurstSizes,
     per_agent_limit : PerAgentLimits]

\* RateLimiter.__init__(config) at time 0
RLInit ==
    /\ now = 0
    /\ config \in Configs
    /\ enabled = TRUE
    /\ global_limiter = TokenBucket(config.requests_per_minute,
                                    config.burst_size, 0)
    /\ agent_limiters = <<>>
    /\ total_requests = 0
    /\ total_rejected = 0
    /\ agent_requests = <<>>
    /\ agent_rejected = <<>>
    /\ result = Call("init", "", 0, "", "none")
    /\ costs_used = {}

Check ==
    \E a \in Agents, n \in Costs :
        /\ check_rate_limit(a, n)
        /\ costs_used' = IF enabled THEN costs_used \cup {n} ELSE costs_used

\* --------------------------------------- concurrent TokenBucket.consume
\* Callers of consume on one shared bucket.  Each call is split at the
\* places where another caller could run if the lock did not exclude it:
\* lock acquisition, the refill, the test, the subtraction, the release.
Callers == {"c1", "c2"}

VARIABLES
    bucket,   \* the shared TokenBucket
    lock,     \* TokenBucket._lock: "free" or the caller holding it
    pc,       \* each caller's position in consume
    want,     \* each caller's argument "tokens"
    ret       \* each caller's return value ("none" until it returns)

cc_vars == <<bucket, lock, pc, want, ret>>

\* (variant: consume takes no lock)
NoLock(l) == TRUE

\* asyncio.Lock: "async with self._lock" enters only when nobody holds it
LockFree(l) == l = "free"

\* a caller starts consume(want[c])
CallConsume(c) ==
    /\ pc[c] = "idle"
    /\ pc' = [pc EXCEPT ![c] = "acquire"]
    /\ UNCHANGED <<bucket, lock, want, ret, now>>

\* "async with self._lock", entry
Acquire(c) ==
    /\ pc[c] = "acquire"
    /\ LockFree(lock)
    /\ lock' = c
    /\ pc' = [pc EXCEPT ![c] = "refill"]
    /\ UNCHANGED <<bucket, want, ret, now>>

\* now = time.time(); tokens = min(capacity, tokens + elapsed * rate)
RefillStep(c) ==
    /\ pc[c] = "refill"
    /\ bucket' = Refill(bucket, now)
    /\ pc' = [pc EXCEPT ![c] = "test"]
    /\ UNCHANGED <<lock, want, ret, now>>

\* "if self.tokens >= tokens"
TestStep(c) ==
    /\ pc[c] = "test"
    /\ IF bucket.tokens >= want[c] * Unit
       THEN /\ pc' = [pc EXCEPT ![c] = "subtract"]
            /\ ret' = ret
       ELSE /\ pc' = [pc EXCEPT ![c] = "release"]
            /\ ret' = [ret EXCEPT ![c] = "false"]
    /\ UNCHANGED <<bucket, lock, want, now>>

\* "self.tokens -= tokens; return True"
SubtractStep(c) ==
    /\ pc[c] = "subtract"
    /\ bucket' = [bucket EXCEPT !.tokens = bucket.tokens - want[c] * Unit]
    /\ ret' = [ret EXCEPT ![c] = "true"]
    /\ pc' = [pc EXCEPT ![c] = "release"]
    /\ UNCHANGED <<lock, want, now>>

\* "async with self._lock", exit
Release(c) ==
    /\ pc[c] = "release"
    /\ lock' = "free"
    /\ pc' = [pc EXCEPT ![c] = "done"]
    /\ UNCHANGED <<bucket, want, ret, now>>

\* the wall clock advances by one second while callers run
ClockStep ==
    /\ now < MaxTime
    /\ now' = now + 1
    /\ UNCHANGED cc_vars

\* a fresh bucket TokenBucket(rate, capacity) and two pending calls
CCInit ==
    /\ \E r \in RequestsPerMinute \cup PerAgentLimits, cap \in BurstSizes :
          bucket = TokenBucket(r, cap, 0)
    /\ lock = "free"
    /\ pc = [c \in Callers |-> "idle"]
    /\ want \in [Callers -> Costs]
    /\ ret = [c \in Callers |-> "none"]

\* no concurrent callers: the part of the state the other specifications
\* leave alone
CCIdle ==
    /\ bucket = TokenBucket(0, 0, 0)
    /\ lock = "free"
    /\ pc = [c \in Callers |-> "done"]
    /\ want = [c \in Callers |-> 1]
    /\ ret = [c \in Callers |-> "none"]

\* ------------------------------------------------------------ the gateway
\* MCPDDSGateway and the bus adapter it drives (DDSManager).  The gateway
\* clock counts milliseconds: subscription ids are made of the topic name
\* and int(time.time() * 1000).
Topics == {"SensorData", "CommandTopic"}

\* argument "max_samples" of read: absent (0 here) or a number
MaxSamplesArgs == {0, 3, 20}
\* configured performance.max_samples_per_read
MaxSamplesCeilings == {5, 100}

\* topic_allowlist configurations the model draws from
Allowlists ==
    { [agent1 |-> [read |-> {"SensorData", "CommandTopic"},
                   write |-> {"CommandTopic"}],
       agent2 |-> [read |-> {"SensorData"}, write |-> {}]],
      [agent1 |-> [read |-> {"SensorData"}, write |-> {"SensorData"}]] }

VARIABLES
    allowlist,             \* gateway_config.config["topic_allowlist"]
    max_samples_per_read,  \* gateway_config.max_samples_per_read
    type_names,            \* types_config.get_all_type_names(), as a set
    gw_clock,              \* int(time.time() * 1000)
    subscriptions,         \* dds_manager.subscriptions: id -> handle
    data_readers,          \* dds_manager.data_readers (topics with a reader)
    data_writers,          \* dds_manager.data_writers (topics with a writer)
    active_agents,         \* MCPDDSGateway.active_agents: agent -> ids
    bus_calls,             \* number of calls made on the bus adapter
    last_bus_call,         \* the last call made on the bus adapter
    tool_result            \* what the handler of the last tool call returned

gw_vars == <<allowlist, max_samples_per_read, type_names, gw_clock,
             subscriptions, data_readers, data_writers, active_agents,
             bus_calls, last_bus_call, tool_result>>

\* (variant: an agent without an allowlist entry may read every topic)
get_agent_read_topics_open(agent_name) ==
    IF agent_name \in DOMAIN allowlist THEN allowlist[agent_name].read
    ELSE Topics

\* GatewayConfig.get_agent_read_topics / get_agent_write_topics
get_agent_read_topics(agent_name) ==
    IF agent_name \in DOMAIN allowlist THEN allowlist[agent_name].read ELSE {}
get_agent_write_topics(agent_name) ==
    IF agent_name \in DOMAIN allowlist THEN allowlist[agent_name].write ELSE {}

\* GatewayConfig.can_agent_read_topic / can_agent_write_topic
can_agent_read_topic(agent_name, topic_name) ==
    topic_name \in get_agent_read_topics(agent_name)
can_agent_write_topic(agent_name, topic_name) ==
    topic_name \in get_agent_write_topics(agent_name)

BusCall(op, agent_name, topic_name, max_samples) ==
    [op |-> op, agent |-> agent_name, topic |-> topic_name,
     max_samples |-> max_samples]

ToolResult(tool, agent_name, topic_name, success, error, id, count) ==
    [tool |-> tool, agent |-> agent_name, topic |-> topic_name,
     success |-> success, error |-> error, subscription_id |-> id,
     count |-> count]

NoId == <<"", -1>>
NoResult == ToolResult("none", "", "", FALSE, "", NoId, 0)

\* (variant: the bus adapter is called before the grant is tested)
DeniedAfterBusCall(tool, agent_name, topic_name) ==
    /\ bus_calls < MaxBusCalls
    /\ bus_calls' = bus_calls + 1
    /\ last_bus_call' = BusCall(tool, agent_name, topic_name, 0)
    /\ tool_result' = ToolResult(tool, agent_name, topic_name, FALSE,
                                 "permission", NoId, 0)
    /\ UNCHANGED <<subscriptions, data_readers, data_writers, active_agents>>

\* the handlers' permission-denied return
Denied(tool, agent_name, topic_name) ==
    /\ tool_result' = ToolResult(tool, agent_name, topic_name, FALSE,
                                 "permission", NoId, 0)
    /\ UNCHANGED <<subscriptions, data_readers, data_writers, active_agents,
                   bus_calls, last_bus_call>>

\* subscription id: f"{topic_name}_{int(time.time() * 1000)}"
subscription_id(topic_name, ms) == <<topic_name, ms>>

\* active_agents after "append(subscription_id)" for the agent
TrackSubscription(agents, agent_name, id) ==
    [x \in DOMAIN agents \cup {agent_name} |->
        IF x = agent_name
        THEN (IF x \in DOMAIN agents THEN agents[x] ELSE <<>>) \o <<id>>
        ELSE agents[x]]

\* dds_manager.subscriptions after "self.subscriptions[id] = handle"
StoreSubscription(subs, id, topic_name) ==
    [x \in DOMAIN subs \cup {id} |->
        IF x = id THEN [topic_name |-> topic_name, active |-> TRUE]
        ELSE subs[x]]

TotalTracked ==
    LET RECURSIVE Sum(_)
        Sum(S) == IF S = {} THEN 0
                  ELSE LET x == CHOOSE y \in S : TRUE
                       IN  Len(active_agents[x]) + Sum(S \ {x})
    IN  Sum(DOMAIN active_agents)

\* MCPDDSGateway._handle_subscribe with DDSManager.subscribe; bus_ok is
\* whether create_data_reader succeeds when the topic has no reader yet
_handle_subscribe(agent_name, topic_name, bus_ok) ==
    IF ~can_agent_read_topic(agent_name, topic_name)
    THEN Denied("subscribe", agent_name, topic_name)
    ELSE /\ bus_calls < MaxBusCalls
         /\ bus_calls' = bus_calls + 1
         /\ last_bus_call' = BusCall("subscribe", agent_name, topic_name, 0)
         /\ data_writers' = data_writers
         /\ IF topic_name \in data_readers \/ bus_ok
            THEN LET id == subscription_id(topic_name, gw_clock)
                 IN  /\ TotalTracked < MaxSubs
                     /\ data_readers' = data_readers \cup {topic_name}
                     /\ subscriptions' =
                            StoreSubscription(subscriptions, id, topic_name)
                     /\ active_agents' =
                            TrackSubscription(active_agents, agent_name, id)
                     /\ tool_result' = ToolResult("subscribe", agent_name,
                                           topic_name, TRUE, "", id, 0)
            ELSE /\ UNCHANGED <<data_readers, subscriptions, active_agents>>
                 /\ tool_result' = ToolResult("subscribe", agent_name,
                                       topic_name, FALSE, "bus", NoId, 0)

\* (variant: max_samples is forwarded as requested)
ForwardedUnclamped(arg) == IF arg = 0 THEN DefaultMaxSamples ELSE arg

\* the clamp of max_samples in _handle_read; 0 stands for an absent argument
ForwardedMaxSamples(arg) ==
    LET max_samples == IF arg = 0 THEN DefaultMaxSamples ELSE arg
    IN  IF max_samples > max_samples_per_read THEN max_samples_per_read
        ELSE max_samples

\* MCPDDSGateway._handle_read with DDSManager.read_samples; bus_ok is
\* whether the reader is created and reader.take succeeds, count the number
\* of samples it returns
_handle_read(agent_name, topic_name, arg, bus_ok, count) ==
    IF ~can_agent_read_topic(agent_name, topic_name)
    THEN Denied("read", agent_name, topic_name)
    ELSE /\ bus_calls < MaxBusCalls
         /\ bus_calls' = bus_calls + 1
         /\ last_bus_call' = BusCall("read", agent_name, topic_name,
                                     ForwardedMaxSamples(arg))
         /\ UNCHANGED <<data_writers, subscriptions, active_agents>>
         /\ IF bus_ok
            THEN /\ count <= ForwardedMaxSamples(arg)
                 /\ data_readers' = data_readers \cup {topic_name}
                 /\ tool_result' = ToolResult("read", agent_name, topic_name,
                                       TRUE, "", NoId, count)
            ELSE /\ count = 0
                 /\ data_readers' \in {data_readers,
                                       data_readers \cup {topic_name}}
                 /\ tool_result' = ToolResult("read", agent_name, topic_name,
                                       FALSE, "bus", NoId, 0)

\* MCPDDSGateway._handle_write with DDSManager.write_sample; limit bounds
\* the number of bus calls the model follows
_handle_write_within(limit, agent_name, topic_name, bus_ok) ==
    IF ~can_agent_write_topic(agent_name, topic_name)
    THEN Denied("write", agent_name, topic_name)
    ELSE /\ bus_calls < limit
         /\ bus_calls' = bus_calls + 1
         /\ last_bus_call' = BusCall("write", agent_name, topic_name, 0)
         /\ UNCHANGED <<data_readers, subscriptions, active_agents>>
         /\ IF bus_ok
            THEN /\ data_writers' = data_writers \cup {topic_name}
                 /\ tool_result' = ToolResult("write", agent_name, topic_name,
                                       TRUE, "", NoId, 0)
            ELSE /\ data_writers' \in {data_writers,
                                       data_writers \cup {topic_name}}
                 /\ tool_result' = ToolResult("write", agent_name, topic_name,
                                       FALSE, "bus", NoId, 0)

_handle_write(agent_name, topic_name, bus_ok) ==
    _handle_write_within(MaxBusCalls, agent_name, topic_name, bus_ok)

\* (variant: every subscription to the id's topic is dropped)
unsubscribe_topic(subs, id) ==
    [x \in {y \in DOMAIN subs : y[1] # id[1]} |-> subs[x]]

\* DDSManager.unsubscribe: drop the handle if the id is known
unsubscribe(subs, id) ==
    IF id \in DOMAIN subs
    THEN [x \in DOMAIN subs \ {id} |-> subs[x]]
    ELSE subs

\* MCPDDSGateway._handle_unsubscribe
_handle_unsubscribe(id) ==
    /\ bus_calls < MaxBusCalls
    /\ bus_calls' = bus_calls + 1
    /\ last_bus_call' = BusCall("unsubscribe", "", id[1], 0)
    /\ subscriptions' = unsubscribe(subscriptions, id)
    /\ tool_result' = ToolResult("unsubscribe", "", id[1], TRUE, "", id, 0)
    /\ UNCHANGED <<data_readers, data_writers, active_agents>>

\* MCPDDSGateway.stop() with CycloneDDSManager.stop(): every handle is
\* marked inactive and stays in the registry; the readers and writers stay
\* in their maps
stop ==
    /\ last_bus_call.op # "stop"
    /\ last_bus_call' = BusCall("stop", "", "", 0)
    /\ subscriptions' =
          [id \in DOMAIN subscriptions |->
              [subscriptions[id] EXCEPT !.active = FALSE]]
    /\ UNCHANGED <<data_readers, data_writers, active_agents, bus_calls,
                   tool_result>>

\* the gateway clock advances by one millisecond
GwTick ==
    /\ gw_clock < MaxClock
    /\ gw_clock' = gw_clock + 1
    /\ UNCHANGED <<subscriptions, data_readers, data_writers, active_agents,
                   bus_calls, last_bus_call, tool_result>>

SubscriptionIds == Topics \X (0..MaxClock)

Subscribe ==
    \E a \in Agents, t \in Topics, ok \in BOOLEAN :
        _handle_subscribe(a, t, ok)
Read ==
    \E a \in Agents, t \in Topics, m \in MaxSamplesArgs, ok \in BOOLEAN,
       k \in 0..MaxSamples :
        _handle_read(a, t, m, ok, k)
Write ==
    \E a \in Agents, t \in Topics, ok \in BOOLEAN : _handle_write(a, t, ok)
Unsubscribe ==
    \E id \in SubscriptionIds : _handle_unsubscribe(id)

\* GatewayConfig.get_all_topics: every topic the allowlist names
get_all_topics ==
    UNION {allowlist[a].read \cup allowlist[a].write : a \in DOMAIN allowlist}

\* the struct names of the types.xml files the model draws from
TypeNameSets == SUBSET (Topics \cup {"AlertTopic"})

\* TypesConfig.validate_topic_types(topics): a topic without a type makes
\* load_configuration raise, and start() with it
validate_topic_types(topics) == topics \subseteq type_names

\* MCPDDSGateway.__init__ and start(): configuration loaded, bus started
GWInit ==
    /\ allowlist \in Allowlists
    /\ max_samples_per_read \in MaxSamplesCeilings
    /\ type_names \in TypeNameSets
    /\ validate_topic_types(get_all_topics)
    /\ gw_clock = 0
    /\ subscriptions = <<>>
    /\ data_readers = {}
    /\ data_writers = {}
    /\ active_agents = <<>>
    /\ bus_calls = 0
    /\ last_bus_call = BusCall("none", "", "", 0)
    /\ tool_result = NoResult

\* no gateway: the part of the state the other specifications leave alone
GWIdle ==
    /\ allowlist = <<>>
    /\ max_samples_per_read = 0
    /\ type_names = {}
    /\ gw_clock = 0
    /\ subscriptions = <<>>
    /\ data_readers = {}
    /\ data_writers = {}
    /\ active_agents = <<>>
    /\ bus_calls = 0
    /\ last_bus_call = BusCall("none", "", "", 0)
    /\ tool_result = NoResult

\* --------------------------------------------------------------- call_tool
\* The MCP entry point: the tool name selects a handler, the handler reads
\* its arguments with args["key"], and whatever comes back is returned as
\* one text content.
HandledTools == {"subscribe", "read", "write", "unsubscribe", "list_topics",
                 "get_topic_info"}
ToolNames == HandledTools \cup {"delete_topic"}


\* argument mappings the model draws from: complete ones and ones that miss
\* a key some handler reads
ArgumentMaps ==
    {<<>>}
    \cup {[agent_name |-> a] : a \in Agents}
    \cup {[topic_name |-> t] : t \in Topics}
    \cup {[agent_name |-> a, topic_name |-> t] : a \in Agents, t \in Topics}
    \cup {[agent_name |-> a, topic_name |-> t, max_samples |-> m] :
             a \in Agents, t \in Topics, m \in MaxSamplesArgs \ {0}}
    \cup {[agent_name |-> a, topic_name |-> t, data |-> "sample"] :
             a \in Agents, t \in Topics}
    \cup {[subscription_id |-> id] : id \in SubscriptionIds}

VARIABLES
    tool_response    \* what call_tool returned last

ct_vars == <<tool_response>>

\* the keys a handler reads with args["key"]; a missing one is a KeyError
RequiredKeys(name) ==
    CASE name \in {"subscribe", "read"} -> {"agent_name", "topic_name"}
      [] name = "write" -> {"agent_name", "topic_name", "data"}
      [] name = "unsubscribe" -> {"subscription_id"}
      [] name = "list_topics" -> {"agent_name"}
      [] name = "get_topic_info" -> {"topic_name"}

\* MCPDDSGateway._handle_list_topics
_handle_list_topics(agent_name) ==
    /\ tool_result' = ToolResult("list_topics", agent_name, "", TRUE, "",
                                 NoId, 0)
    /\ UNCHANGED <<subscriptions, data_readers, data_writers, active_agents,
                   bus_calls, last_bus_call>>

\* MCPDDSGateway._handle_get_topic_info with TypesConfig.get_type_definition
_handle_get_topic_info(topic_name) ==
    /\ tool_result' = ToolResult("get_topic_info", "", topic_name,
                                 topic_name \in type_names,
                                 IF topic_name \in type_names THEN ""
                                 ELSE "not found", NoId, 0)
    /\ UNCHANGED <<subscriptions, data_readers, data_writers, active_agents,
                   bus_calls, last_bus_call>>

\* the keys of the dict a handler returned
HandlerKeys(r) ==
    IF ~r.success THEN {"success", "error"}
    ELSE CASE r.tool = "subscribe" ->
                 {"success", "subscription_id", "topic_name"}
           [] r.tool = "read" -> {"success", "topic_name", "samples", "count"}
           [] r.tool = "write" -> {"success", "topic_name", "message"}
           [] r.tool = "unsubscribe" ->
                 {"success", "subscription_id", "message"}
           [] r.tool = "list_topics" -> {"success", "agent_name", "topics"}
           [] r.tool = "get_topic_info" ->
                 {"success", "topic_name", "type_definition"}

\* the "topics" entry of a list_topics result
ListedTopics(r) ==
    IF r.tool = "list_topics" /\ r.success
    THEN [readable |-> get_agent_read_topics(r.agent),
          writable |-> get_agent_write_topics(r.agent)]
    ELSE [readable |-> {}, writable |-> {}]

\* what call_tool returns: the text of a dict with these keys, or the bare
\* text "Error: ..." of its except branch
DictResponse(keys, topics) ==
    [kind |-> "dict", keys |-> keys, topics |-> topics]
ErrorText ==
    [kind |-> "text", keys |-> {}, topics |-> ListedTopics(NoResult)]

\* the branch of call_tool that runs the handler selected by name
Dispatch(name, arguments, bus_ok, count) ==
    CASE name = "subscribe" ->
             _handle_subscribe(arguments.agent_name, arguments.topic_name,
                               bus_ok)
      [] name = "read" ->
             _handle_read(arguments.agent_name, arguments.topic_name,
                          IF "max_samples" \in DOMAIN arguments
                          THEN arguments.max_samples ELSE 0,
                          bus_ok, count)
      [] name = "write" ->
             _handle_write(arguments.agent_name, arguments.topic_name,
                           bus_ok)
      [] name = "unsubscribe" ->
             _handle_unsubscribe(arguments.subscription_id)
      [] name = "list_topics" -> _handle_list_topics(arguments.agent_name)
      [] name = "get_topic_info" ->
             _handle_get_topic_info(arguments.topic_name)

\* call_tool(name, arguments); bus_ok and count are the bus adapter's
\* behaviour as in the handlers
call_tool(name, arguments, bus_ok, count) ==
    IF name \notin HandledTools
    THEN /\ tool_response' = DictResponse({"error"}, ListedTopics(NoResult))
         /\ tool_result' = NoResult
         /\ UNCHANGED <<subscriptions, data_readers, data_writers,
                        active_agents, bus_calls, last_bus_call>>
    ELSE IF ~(RequiredKeys(name) \subseteq DOMAIN arguments)
    THEN /\ tool_response' = ErrorText
         /\ tool_result' = NoResult
         /\ UNCHANGED <<subscriptions, data_readers, data_writers,
                        active_agents, bus_calls, last_bus_call>>
    ELSE /\ Dispatch(name, arguments, bus_ok, count)
         /\ tool_response' = DictResponse(HandlerKeys(tool_result'),
                                          ListedTopics(tool_result'))

CallTool ==
    \E name \in ToolNames, arguments \in ArgumentMaps :
        IF /\ name \in {"subscribe", "read", "write"}
           /\ RequiredKeys(name) \subseteq DOMAIN arguments
        THEN \E ok \in BOOLEAN, k \in 0..MaxSamples :
                 call_tool(name, arguments, ok, k)
        ELSE call_tool(name, arguments, TRUE, 0)

\* no tool call made yet
CTIdle ==
    tool_response = [kind |-> "none", keys |-> {},
                     topics |-> ListedTopics(NoResult)]

\* ---------------------------------------------------------- DDSAgentClient
\* One client of the gateway above.  Its methods are called by tasks of the
\* event loop.  A method that makes a tool call is suspended in "await
\* self.session.call_tool(...)": it is split into the part up to the call,
\* the gateway's call_tool serving the call, and the part that runs when
\* the task resumes with the response.  Other tasks run in between.
\* disconnect makes one such call per subscription, and each listener task
\* awaits the read, the callback and the sleep of an iteration.
ClientAgent == "agent1"
\* read(topic_name, max_samples=100) in the listener
ListenerMaxSamples == 100
\* read(topic_name, max_samples=10) called by a task
ReadMaxSamples == 10

VARIABLES
    _connected,      \* DDSAgentClient._connected
    _subscriptions,  \* DDSAgentClient._subscriptions: topic -> id, in
                     \* insertion order
    listeners,       \* the tasks made by create_task(_subscription_listener)
    client_raised,   \* what the last method call of the client raised
    calls,           \* each task's method call: the method, its arguments,
                     \* where it is, and the response once it is served
    started          \* number of method calls the tasks have made

cl_vars == <<_connected, _subscriptions, listeners, client_raised, calls,
             started>>

\* the tasks that call the client's methods
Tasks == {"A", "B"}

\* a task that is in no method
NoCall ==
    [method |-> "none", topic_name |-> "", subscription_id |-> NoId,
     callback |-> FALSE, pending |-> <<>>, pc |-> "idle", success |-> FALSE]

\* dict operations on _subscriptions
SubscribedTopics(subs) == {subs[i].topic : i \in DOMAIN subs}
Lookup(subs, topic_name) ==
    subs[CHOOSE i \in DOMAIN subs : subs[i].topic = topic_name].id
Assign(subs, topic_name, id) ==
    IF topic_name \in SubscribedTopics(subs)
    THEN [i \in DOMAIN subs |->
             IF subs[i].topic = topic_name
             THEN [topic |-> topic_name, id |-> id] ELSE subs[i]]
    ELSE Append(subs, [topic |-> topic_name, id |-> id])
Delete(subs, topic_name) ==
    SelectSeq(subs, LAMBDA e : e.topic # topic_name)

\* a listener task just created: it first tests the loop condition
Listener(topic_name, id) ==
    [topic_name |-> topic_name, subscription_id |-> id, pc |-> "loop",
     error |-> "none", success |-> FALSE, count |-> 0]

\* the gateway is not reached in this step
NoToolCall ==
    UNCHANGED <<subscriptions, data_readers, data_writers, active_agents,
                bus_calls, last_bus_call, tool_result, tool_response>>

\* the method raised before any tool call
RaisedNotConnected ==
    /\ client_raised' = "DDSClientError"
    /\ NoToolCall
    /\ UNCHANGED <<_connected, _subscriptions, listeners, calls>>

\* The tasks are interchangeable, so of two tasks that are in no method the
\* first is the one that calls next.
MayCall(k) ==
    /\ calls[k].pc = "idle"
    /\ k = "B" => calls["A"].pc # "idle"

\* one more method call is made
Starts ==
    /\ started < MaxCalls
    /\ started' = started + 1

\* task k is suspended in an await of the method
Awaits(k, method, topic_name, id, callback, pending) ==
    calls' = [calls EXCEPT ![k] =
                 [method |-> method, topic_name |-> topic_name,
                  subscription_id |-> id, callback |-> callback,
                  pending |-> pending, pc |-> "call", success |-> FALSE]]

\* a method up to its tool call: "if not self._connected: raise", then
\* "await self.session.call_tool(...)"
CallsTool(k, method, topic_name, id, callback) ==
    /\ MayCall(k)
    /\ IF ~_connected
       THEN RaisedNotConnected
       ELSE /\ Awaits(k, method, topic_name, id, callback, <<>>)
            /\ NoToolCall
            /\ UNCHANGED <<_connected, _subscriptions, listeners,
                           client_raised>>

\* DDSAgentClient.subscribe(topic_name, callback) up to its tool call;
\* callback is whether one is given
client_subscribe(k, topic_name, callback) ==
    CallsTool(k, "subscribe", topic_name, NoId, callback)

\* DDSAgentClient.read(topic_name) up to its tool call
client_read(k, topic_name) == CallsTool(k, "read", topic_name, NoId, FALSE)

\* DDSAgentClient.write(topic_name, data) up to its tool call
client_write(k, topic_name) == CallsTool(k, "write", topic_name, NoId, FALSE)

\* DDSAgentClient.list_topics() up to its tool call
client_list_topics(k) == CallsTool(k, "list_topics", "", NoId, FALSE)

\* DDSAgentClient.get_topic_info(topic_name) up to its tool call
client_get_topic_info(k, topic_name) ==
    CallsTool(k, "get_topic_info", topic_name, NoId, FALSE)

\* DDSAgentClient.unsubscribe_by_id(subscription_id) up to its tool call
unsubscribe_by_id(k, id) == CallsTool(k, "unsubscribe_by_id", "", id, FALSE)

\* DDSAgentClient.unsubscribe(topic_name) up to the tool call of its
\* unsubscribe_by_id
client_unsubscribe(k, topic_name) ==
    IF topic_name \notin SubscribedTopics(_subscriptions)
    THEN /\ MayCall(k)
         /\ client_raised' = "none"
         /\ NoToolCall
         /\ UNCHANGED <<_connected, _subscriptions, listeners, calls>>
    ELSE CallsTool(k, "unsubscribe", topic_name,
                   Lookup(_subscriptions, topic_name), FALSE)

\* DDSAgentClient.connect() up to its awaits; a connected client returns
\* at once
connect(k) ==
    /\ MayCall(k)
    /\ NoToolCall
    /\ UNCHANGED <<_connected, _subscriptions, listeners>>
    /\ IF _connected
       THEN client_raised' = "none" /\ calls' = calls
       ELSE /\ Awaits(k, "connect", "", NoId, FALSE, <<>>)
            /\ client_raised' = client_raised

\* connect() leaves its "async with" blocks and returns or raises:
\* entered is whether "self._connected = True" was reached, raises is
\* whether an exit of the blocks raised; every exception is turned into
\* DDSClientError
ConnectLeaves(k, entered, raises) ==
    /\ calls' = [calls EXCEPT ![k] = NoCall]
    /\ client_raised' = IF entered /\ ~raises THEN "none"
                        ELSE "DDSClientError"

\* connect() from its awaits on (the entry of the two "async with"
\* blocks and the session's initialize): ok is whether they all returned,
\* and then "self._connected = True" is done inside the blocks; an
\* exception skips it.  The blocks are then left: their exits are awaited
\* (suspends: the task is suspended in them, still inside connect) and
\* may raise.
connect_resume(k, ok, suspends, raises) ==
    /\ calls[k].pc = "call"
    /\ calls[k].method = "connect"
    /\ _connected' = (_connected \/ ok)
    /\ IF suspends
       THEN /\ calls' = [calls EXCEPT ![k].pc = "exit", ![k].success = ok]
            /\ client_raised' = client_raised
       ELSE ConnectLeaves(k, ok, raises)
    /\ NoToolCall
    /\ UNCHANGED <<_subscriptions, listeners>>

\* connect() resumed in the exits of its "async with" blocks
connect_exit(k, raises) ==
    /\ calls[k].pc = "exit"
    /\ calls[k].method = "connect"
    /\ ConnectLeaves(k, calls[k].success, raises)
    /\ NoToolCall
    /\ UNCHANGED <<_connected, _subscriptions, listeners>>

\* the loop of disconnect with the ids still to unsubscribe: the next
\* unsubscribe_by_id up to its tool call; an unsubscribe_by_id that raises
\* (not connected) is caught and logged; past the loop _connected is
\* cleared and disconnect returns
DisconnectGoesOn(k, ids) ==
    IF ids # <<>> /\ _connected
    THEN /\ Awaits(k, "disconnect", "", Head(ids), FALSE, ids)
         /\ UNCHANGED <<_connected, client_raised>>
    ELSE /\ calls' = [calls EXCEPT ![k] = NoCall]
         /\ _connected' = FALSE
         /\ client_raised' = "none"

\* DDSAgentClient.disconnect() up to its first tool call; the ids to
\* unsubscribe are list(self._subscriptions.values()); a client that is
\* not connected returns at once
disconnect(k) ==
    /\ MayCall(k)
    /\ NoToolCall
    /\ UNCHANGED <<_subscriptions, listeners>>
    /\ IF ~_connected
       THEN client_raised' = "none" /\ UNCHANGED <<_connected, calls>>
       ELSE DisconnectGoesOn(k, [i \in DOMAIN _subscriptions |->
                                    _subscriptions[i].id])

\* disconnect from a response on: the error, if any, is caught and logged,
\* and the loop goes on
disconnect_resume(k) ==
    /\ calls[k].pc = "resume"
    /\ calls[k].method = "disconnect"
    /\ DisconnectGoesOn(k, Tail(calls[k].pending))
    /\ NoToolCall
    /\ UNCHANGED <<_subscriptions, listeners>>

\* the tool call_tool is asked for by a method
ToolOf(c) ==
    IF c.method \in {"unsubscribe", "unsubscribe_by_id", "disconnect"}
    THEN "unsubscribe"
    ELSE c.method

\* the arguments a method passes to call_tool
ArgumentsOf(c) ==
    CASE c.method = "subscribe" ->
             [agent_name |-> ClientAgent, topic_name |-> c.topic_name]
      [] c.method = "read" ->
             [agent_name |-> ClientAgent, topic_name |-> c.topic_name,
              max_samples |-> ReadMaxSamples]
      [] c.method = "write" ->
             [agent_name |-> ClientAgent, topic_name |-> c.topic_name,
              data |-> "sample"]
      [] c.method = "list_topics" -> [agent_name |-> ClientAgent]
      [] c.method = "get_topic_info" -> [topic_name |-> c.topic_name]
      [] OTHER -> [subscription_id |-> c.subscription_id]

\* the gateway's call_tool serves the tool call task k awaits; the
\* response is kept for the task
call_served(k, bus_ok, count) ==
    /\ calls[k].pc = "call"
    /\ calls[k].method # "connect"
    /\ call_tool(ToolOf(calls[k]), ArgumentsOf(calls[k]), bus_ok, count)
    /\ calls' = [calls EXCEPT
                    ![k].pc = "resume",
                    ![k].success = tool_result'.success,
                    ![k].subscription_id =
                        IF calls[k].method = "subscribe"
                        THEN tool_result'.subscription_id ELSE @]
    /\ UNCHANGED <<_connected, _subscriptions, listeners, client_raised>>

\* the tool call task k awaits raises instead of returning a response
\* (the session was left by connect(); what it does with a call is the
\* MCP library's): the gateway is not reached, and the method's except
\* turns the exception into DDSClientError as it does a failure response
call_raises(k) ==
    /\ calls[k].pc = "call"
    /\ calls[k].method # "connect"
    /\ calls' = [calls EXCEPT ![k].pc = "resume", ![k].success = FALSE]
    /\ NoToolCall
    /\ UNCHANGED <<_connected, _subscriptions, listeners, client_raised>>

\* subscribe from the response on: the id is recorded under the topic and
\* the listener task is created
subscribe_resume(k) ==
    /\ calls[k].pc = "resume"
    /\ calls[k].method = "subscribe"
    /\ IF ~calls[k].success
       THEN /\ client_raised' = "DDSClientError"
            /\ UNCHANGED <<_subscriptions, listeners>>
       ELSE /\ client_raised' = "none"
            /\ _subscriptions' =
                  Assign(_subscriptions, calls[k].topic_name,
                         calls[k].subscription_id)
            /\ listeners' =
                  IF calls[k].callback
                  THEN Append(listeners,
                              Listener(calls[k].topic_name,
                                       calls[k].subscription_id))
                  ELSE listeners
    /\ calls' = [calls EXCEPT ![k] = NoCall]
    /\ NoToolCall
    /\ UNCHANGED _connected

\* read, write, list_topics, get_topic_info and unsubscribe_by_id from the
\* response on: the result is returned, or DDSClientError raised
call_resume(k) ==
    /\ calls[k].pc = "resume"
    /\ calls[k].method \in {"read", "write", "list_topics", "get_topic_info",
                            "unsubscribe_by_id"}
    /\ client_raised' = IF calls[k].success THEN "none" ELSE "DDSClientError"
    /\ calls' = [calls EXCEPT ![k] = NoCall]
    /\ NoToolCall
    /\ UNCHANGED <<_connected, _subscriptions, listeners>>

\* unsubscribe from the response on: "del self._subscriptions[topic_name]"
\* raises KeyError when the topic is no longer there
unsubscribe_resume(k) ==
    /\ calls[k].pc = "resume"
    /\ calls[k].method = "unsubscribe"
    /\ IF ~calls[k].success
       THEN /\ client_raised' = "DDSClientError"
            /\ _subscriptions' = _subscriptions
       ELSE IF calls[k].topic_name \notin SubscribedTopics(_subscriptions)
       THEN /\ client_raised' = "KeyError"
            /\ _subscriptions' = _subscriptions
       ELSE /\ client_raised' = "none"
            /\ _subscriptions' = Delete(_subscriptions, calls[k].topic_name)
    /\ calls' = [calls EXCEPT ![k] = NoCall]
    /\ NoToolCall
    /\ UNCHANGED <<_connected, listeners>>

\* listener task i goes on to another place; it is "done" when its loop
\* condition failed (error "none") or when an exception reached the except
\* around the loop (error: where it was raised)
Goes(i, at, error) ==
    listeners' = [listeners EXCEPT ![i].pc = at, ![i].error = error]

\* _subscription_listener: the loop condition, then read() up to its tool
\* call
listener_loop(i) ==
    /\ listeners[i].pc = "loop"
    /\ IF listeners[i].topic_name \notin SubscribedTopics(_subscriptions)
       THEN Goes(i, "done", "none")
       ELSE IF ~_connected
       THEN Goes(i, "done", "read")
       ELSE Goes(i, "read", "none")
    /\ NoToolCall
    /\ UNCHANGED <<_connected, _subscriptions, client_raised, calls>>

\* the gateway's call_tool serves the read listener task i awaits; the
\* response is kept for the task
listener_served(i, bus_ok, count) ==
    /\ listeners[i].pc = "read"
    /\ call_tool("read",
                 [agent_name |-> ClientAgent,
                  topic_name |-> listeners[i].topic_name,
                  max_samples |-> ListenerMaxSamples], bus_ok, count)
    /\ listeners' = [listeners EXCEPT ![i].pc = "resume",
                                      ![i].success = tool_result'.success,
                                      ![i].count = tool_result'.count]
    /\ UNCHANGED <<_connected, _subscriptions, client_raised, calls>>

\* the tool call of the read listener task i awaits raises instead of
\* returning a response; read() raises DDSClientError
listener_raises(i) ==
    /\ listeners[i].pc = "read"
    /\ listeners' = [listeners EXCEPT ![i].pc = "resume",
                                      ![i].success = FALSE,
                                      ![i].count = 0]
    /\ NoToolCall
    /\ UNCHANGED <<_connected, _subscriptions, client_raised, calls>>

\* _subscription_listener from the response of its read on: read() returns
\* the samples or raises
listener_read(i) ==
    /\ listeners[i].pc = "resume"
    /\ IF ~listeners[i].success
       THEN Goes(i, "done", "read")
       ELSE IF listeners[i].count > 0
       THEN Goes(i, "callback", "none")
       ELSE Goes(i, "sleep", "none")
    /\ NoToolCall
    /\ UNCHANGED <<_connected, _subscriptions, client_raised, calls>>

\* _subscription_listener: the callback runs; throws is whether it raises
listener_callback(i, throws) ==
    /\ listeners[i].pc = "callback"
    /\ IF throws THEN Goes(i, "done", "callback") ELSE Goes(i, "sleep", "none")
    /\ NoToolCall
    /\ UNCHANGED <<_connected, _subscriptions, client_raised, calls>>

\* _subscription_listener: asyncio.sleep(0.1) is over
listener_wake(i) ==
    /\ listeners[i].pc = "sleep"
    /\ Goes(i, "loop", "none")
    /\ NoToolCall
    /\ UNCHANGED <<_connected, _subscriptions, client_raised, calls>>

\* DDSAgentClient.__init__, and the client as "async with" gives it to
\* its block, connect() having returned
CLInit ==
    /\ _connected \in BOOLEAN
    /\ _subscriptions = <<>>
    /\ listeners = <<>>
    /\ client_raised = "none"
    /\ calls = [k \in Tasks |-> NoCall]
    /\ started = 0

\* no client
CLIdle ==
    /\ _connected = FALSE
    /\ _subscriptions = <<>>
    /\ listeners = <<>>
    /\ client_raised = "none"
    /\ calls = [k \in Tasks |-> NoCall]
    /\ started = 0

\* ------------------------------------------------------- a second limiter
\* A second RateLimiter with the same RateLimitConfig, constructed at a time
\* of its own and then given every call the first one is given, at the same
\* wall-clock time.
VARIABLES
    twin    \* the second RateLimiter: its fields and what its last call did

tw_vars == <<twin>>

\* RateLimiter.__init__(config) at time t
RateLimiter(t) ==
    [enabled |-> TRUE,
     global_limiter |-> TokenBucket(config.requests_per_minute,
                                    config.burst_size, t),
     agent_limiters |-> <<>>,
     total_requests |-> 0,
     total_rejected |-> 0,
     agent_requests |-> <<>>,
     agent_rejected |-> <<>>,
     result |-> Call("init", "", 0, "", "none")]

\* check_rate_limit(agent_name, tokens) on the limiter L at time t
check_rate_limit_on(L, agent_name, tokens, t) ==
    IF ~L.enabled
    THEN [L EXCEPT !.result =
                       Call("check", agent_name, tokens, "disabled", "none")]
    ELSE LET counted == [L EXCEPT !.total_requests = @ + 1,
                                  !.agent_requests = Incr(@, agent_name)]
             g == consume(L.global_limiter, t, tokens)
             limiters == _get_agent_limiter(L.agent_limiters, agent_name, t)
             a == consume(limiters[agent_name], t, tokens)
         IN  IF ~g.ok
             THEN [counted EXCEPT
                      !.global_limiter = g.bucket,
                      !.total_rejected = @ + 1,
                      !.agent_rejected = Incr(@, agent_name),
                      !.result = Call("check", agent_name, tokens, "global",
                                      Raised(g.bucket, tokens))]
             ELSE IF ~a.ok
             THEN [counted EXCEPT
                      !.global_limiter = g.bucket,
                      !.agent_limiters =
                          [limiters EXCEPT ![agent_name] = a.bucket],
                      !.total_rejected = @ + 1,
                      !.agent_rejected = Incr(@, agent_name),
                      !.result = Call("check", agent_name, tokens, "agent",
                                      Raised(a.bucket, tokens))]
             ELSE [counted EXCEPT
                      !.global_limiter = g.bucket,
                      !.agent_limiters =
                          [limiters EXCEPT ![agent_name] = a.bucket],
                      !.result = Call("check", agent_name, tokens, "passed",
                                      "none")]

\* both limiters are given the same call
PairCheck ==
    \E a \in Agents, n \in Costs :
        /\ check_rate_limit(a, n)
        /\ costs_used' = IF enabled THEN costs_used \cup {n} ELSE costs_used
        /\ twin' = check_rate_limit_on(twin, a, n, now)
PairDisable ==
    /\ disable
    /\ twin' = [twin EXCEPT !.enabled = FALSE,
                            !.result = Call("disable", "", 0, "", "none")]
    /\ UNCHANGED costs_used
PairEnable ==
    /\ enable
    /\ twin' = [twin EXCEPT !.enabled = TRUE,
                            !.result = Call("enable", "", 0, "", "none")]
    /\ UNCHANGED costs_used
PairTick == Tick /\ UNCHANGED <<twin, costs_used>>

\* no second limiter
TWIdle == twin = <<>>

\* ---------------------------------------- concurrent check_rate_limit
\* Two tasks call check_rate_limit for one agent the limiter has not seen.
\* Each call is split where the event loop may run the other task: at the
\* two "await ... consume(tokens)".  pc is the task's position, want its
\* argument "tokens", ret how the call ended.  The bucket a task fetched
\* with _get_agent_limiter is the one the map holds under the agent's name.
first_agent == "agent1"

\* check_rate_limit up to the first await: the enabled test and the request
\* counters
check_enter(c) ==
    /\ pc[c] = "idle"
    /\ IF ~enabled
       THEN /\ WhenDisabled(first_agent, want[c])
            /\ pc' = [pc EXCEPT ![c] = "done"]
            /\ ret' = [ret EXCEPT ![c] = "passed"]
            /\ costs_used' = costs_used
       ELSE /\ CountRequest(first_agent)
            /\ pc' = [pc EXCEPT ![c] = "global"]
            /\ costs_used' = costs_used \cup {want[c]}
            /\ UNCHANGED <<now, config, enabled, global_limiter,
                           agent_limiters, total_rejected, agent_rejected,
                           result, ret>>
    /\ UNCHANGED <<bucket, lock, want>>

\* check_rate_limit from the global consume to the second await: the
\* rejection, or _get_agent_limiter
check_global(c) ==
    /\ pc[c] = "global"
    /\ LET g == consume(global_limiter, now, want[c])
       IN  IF ~g.ok
           THEN /\ GlobalRejected(first_agent, want[c], g.bucket)
                /\ pc' = [pc EXCEPT ![c] = "done"]
                /\ ret' = [ret EXCEPT ![c] = "raised"]
           ELSE /\ global_limiter' = g.bucket
                /\ agent_limiters' =
                      _get_agent_limiter(agent_limiters, first_agent, now)
                /\ pc' = [pc EXCEPT ![c] = "agent"]
                /\ UNCHANGED <<total_rejected, agent_rejected, result, ret>>
    /\ UNCHANGED <<now, config, enabled, total_requests, agent_requests,
                   costs_used, bucket, lock, want>>

\* check_rate_limit from the agent's consume to its end
check_agent(c) ==
    /\ pc[c] = "agent"
    /\ LET a == consume(agent_limiters[first_agent], now, want[c])
       IN  IF ~a.ok
           THEN /\ AgentRejected(first_agent, want[c], global_limiter,
                                 agent_limiters, a.bucket)
                /\ ret' = [ret EXCEPT ![c] = "raised"]
           ELSE /\ Passed(first_agent, want[c], global_limiter,
                          agent_limiters, a.bucket)
                /\ ret' = [ret EXCEPT ![c] = "passed"]
    /\ pc' = [pc EXCEPT ![c] = "done"]
    /\ UNCHANGED <<now, config, enabled, total_requests, agent_requests,
                   costs_used, bucket, lock, want>>

\* ------------------------------------------------------- further state
VARIABLES
    adaptive,    \* the AdaptiveRateLimiter: base_config, global rate, last call
    window,      \* the SlidingWindowCounter's fields
    admitted,    \* the timestamps of all calls is_allowed admitted, in order
    allowed,     \* what the last is_allowed call returned
    burst,       \* the writes one agent issued within the second, and how
                 \* many of them succeeded
    read_arg     \* the max_samples argument of the last read (0: omitted)

more_vars == <<adaptive, window, admitted, allowed, burst, read_arg>>

\* no adaptive limiter, no sliding window, nothing issued yet
MoreIdle ==
    /\ adaptive = <<>>
    /\ window = <<>>
    /\ admitted = <<>>
    /\ allowed = FALSE
    /\ burst = [issued |-> 0, succeeded |-> 0]
    /\ read_arg = 0

\* ---------------------------------------------------- AdaptiveRateLimiter
\* adaptive.rate is global_limiter.rate in units of 1/RateScale of the
\* bucket's rate unit, so that MaxAdjust multiplications by 0.9 or 1.1 are
\* exact; system_load is given in percent.  The limiter's other fields are
\* those of the RateLimiter it inherits from.  The clock does not advance
\* while an adaptive limiter is followed, so no refill reads the rate.
RateScale == 10 ^ MaxAdjust

\* (variant: the rate is restored at any load up to the threshold)
adjusted_rate_restoring(rate, requests_per_minute, system_load) ==
    LET original_rate == requests_per_minute * RateScale
        new_rate == (rate * 9) \div 10
    IN  IF system_load > 80
        THEN IF Unit * RateScale > new_rate THEN Unit * RateScale
             ELSE new_rate
        ELSE IF rate < original_rate
        THEN Min(original_rate, (rate * 11) \div 10)
        ELSE rate

\* the rate adjust_limits(system_load) leaves in global_limiter.rate:
\* load_threshold 0.8, adjustment_factor 0.9, floor 1.0 token per second
adjusted_rate(rate, requests_per_minute, system_load) ==
    LET original_rate == requests_per_minute * RateScale
        new_rate == (rate * 9) \div 10
    IN  IF system_load > 80
        THEN IF Unit * RateScale > new_rate THEN Unit * RateScale
             ELSE new_rate
        ELSE IF 2 * system_load < 80 /\ rate < original_rate
        THEN Min(original_rate, (rate * 11) \div 10)
        ELSE rate

\* AdaptiveRateLimiter.adjust_limits(system_load)
adjust_limits(system_load) ==
    /\ adaptive.calls < MaxAdjust
    /\ adaptive' =
          [adaptive EXCEPT
              !.rate = adjusted_rate(adaptive.rate, adaptive.base_rpm,
                                     system_load),
              !.calls = adaptive.calls + 1,
              !.load = system_load]
    /\ UNCHANGED rl_vars

\* --------------------------------------------------- SlidingWindowCounter
\* (variant: a timestamp exactly window_size old is evicted too)
RECURSIVE EvictThrough(_, _)
EvictThrough(requests, cutoff) ==
    IF requests # <<>> /\ Head(requests) <= cutoff
    THEN EvictThrough(Tail(requests), cutoff)
    ELSE requests

\* the popleft loop of is_allowed
RECURSIVE Evict(_, _)
Evict(requests, cutoff) ==
    IF requests # <<>> /\ Head(requests) < cutoff
    THEN Evict(Tail(requests), cutoff)
    ELSE requests

\* SlidingWindowCounter.is_allowed() at time now, run under the lock
is_allowed ==
    LET cutoff == now - window.window_size
        kept == Evict(window.requests, cutoff)
    IN  IF Len(kept) < window.max_requests
        THEN /\ window' = [window EXCEPT !.requests = Append(kept, now)]
             /\ admitted' = Append(admitted, now)
             /\ allowed' = TRUE
        ELSE /\ window' = [window EXCEPT !.requests = kept]
             /\ admitted' = admitted
             /\ allowed' = FALSE

\* --------------------------------------------------------- specifications
vars == <<rl_vars, cc_vars, gw_vars, ct_vars, cl_vars, tw_vars, more_vars>>

\* the rate limiter driven by arbitrary callers
Init == RLInit /\ CCIdle /\ GWIdle /\ CTIdle /\ CLIdle /\ TWIdle /\ MoreIdle
rl_frame == <<cc_vars, gw_vars, ct_vars, cl_vars, tw_vars, more_vars>>
Next ==
    \/ Check /\ UNCHANGED rl_frame
    \/ disable /\ UNCHANGED <<costs_used, rl_frame>>
    \/ enable /\ UNCHANGED <<costs_used, rl_frame>>
    \/ Tick /\ UNCHANGED <<costs_used, rl_frame>>
Spec == Init /\ [][Next]_vars

\* two concurrent consume calls on one bucket
ConsumeInit ==
    /\ CCInit
    /\ GWIdle
    /\ CTIdle
    /\ CLIdle
    /\ TWIdle
    /\ MoreIdle
    /\ now = 0
    /\ config = [requests_per_minute |-> bucket.rate,
                 burst_size |-> bucket.capacity,
                 per_agent_limit |-> bucket.rate]
    /\ enabled = TRUE
    /\ global_limiter = bucket
    /\ agent_limiters = <<>>
    /\ total_requests = 0
    /\ total_rejected = 0
    /\ agent_requests = <<>>
    /\ agent_rejected = <<>>
    /\ result = Call("init", "", 0, "", "none")
    /\ costs_used = {}

cc_frame == <<config, enabled, global_limiter, agent_limiters,
              total_requests, total_rejected, agent_requests,
              agent_rejected, result, costs_used, gw_vars, ct_vars,
              cl_vars, tw_vars, more_vars>>
ConsumeNext ==
    \/ \E c \in Callers : CallConsume(c) /\ UNCHANGED cc_frame
    \/ \E c \in Callers : Acquire(c) /\ UNCHANGED cc_frame
    \/ \E c \in Callers : RefillStep(c) /\ UNCHANGED cc_frame
    \/ \E c \in Callers : TestStep(c) /\ UNCHANGED cc_frame
    \/ \E c \in Callers : SubtractStep(c) /\ UNCHANGED cc_frame
    \/ \E c \in Callers : Release(c) /\ UNCHANGED cc_frame
    \/ ClockStep /\ UNCHANGED cc_frame
SpecConsume == ConsumeInit /\ [][ConsumeNext]_vars

\* the gateway's tool handlers; no handler calls the rate limiter
CallToolInit ==
    /\ RLInit
    /\ config = [requests_per_minute |-> 60, burst_size |-> MaxBurst,
                 per_agent_limit |-> 30]
    /\ CCIdle
    /\ GWInit
    /\ CTIdle
    /\ CLIdle
    /\ TWIdle
    /\ MoreIdle
\* the gateway's handlers other than get_topic_info do not read the types:
\* the types.xml that defines the allowlist's topics and no other
GatewayInit == CallToolInit /\ type_names = get_all_topics
gw_frame == <<allowlist, max_samples_per_read, type_names, rl_vars, cc_vars,
              cl_vars,
              tw_vars, more_vars>>
GatewayNext ==
    \/ Subscribe /\ UNCHANGED <<gw_clock, ct_vars, gw_frame>>
    \/ Read /\ UNCHANGED <<gw_clock, ct_vars, gw_frame>>
    \/ Write /\ UNCHANGED <<gw_clock, ct_vars, gw_frame>>
    \/ Unsubscribe /\ UNCHANGED <<gw_clock, ct_vars, gw_frame>>
    \/ GwTick /\ UNCHANGED <<ct_vars, gw_frame>>
SpecGateway == GatewayInit /\ [][GatewayNext]_vars

\* the gateway reached through call_tool
CallToolNext ==
    \/ CallTool /\ UNCHANGED <<gw_clock, gw_frame>>
    \/ GwTick /\ UNCHANGED <<ct_vars, gw_frame>>
SpecCallTool == CallToolInit /\ [][CallToolNext]_vars

\* one client with its listener tasks, and the gateway serving it
ClientInit ==
    /\ RLInit
    /\ config = [requests_per_minute |-> 60, burst_size |-> MaxBurst,
                 per_agent_limit |-> 30]
    /\ CCIdle
    /\ GWInit
    /\ max_samples_per_read = 100
    /\ can_agent_read_topic(ClientAgent, "CommandTopic")
    /\ type_names = get_all_topics
    /\ CTIdle
    /\ CLInit
    /\ TWIdle
    /\ MoreIdle
cl_frame == <<allowlist, max_samples_per_read, type_names, gw_clock, rl_vars,
              cc_vars, tw_vars, more_vars>>
ClientNext ==
    \/ \E k \in Tasks, t \in Topics, cb \in BOOLEAN :
          client_subscribe(k, t, cb) /\ Starts /\ UNCHANGED cl_frame
    \/ \E k \in Tasks, t \in Topics :
          client_unsubscribe(k, t) /\ Starts /\ UNCHANGED cl_frame
    \/ \E k \in Tasks, id \in SubscriptionIds :
          unsubscribe_by_id(k, id) /\ Starts /\ UNCHANGED cl_frame
    \/ \E k \in Tasks, t \in Topics : client_read(k, t)
          /\ Starts /\ UNCHANGED cl_frame
    \/ \E k \in Tasks, t \in Topics : client_write(k, t)
          /\ Starts /\ UNCHANGED cl_frame
    \/ \E k \in Tasks : client_list_topics(k) /\ Starts /\ UNCHANGED cl_frame
    \/ \E k \in Tasks, t \in Topics :
          client_get_topic_info(k, t) /\ Starts /\ UNCHANGED cl_frame
    \/ \E k \in Tasks : connect(k) /\ Starts /\ UNCHANGED cl_frame
    \/ \E k \in Tasks, ok \in BOOLEAN, suspends \in BOOLEAN,
            raises \in BOOLEAN :
          connect_resume(k, ok, suspends, raises)
          /\ UNCHANGED <<started, cl_frame>>
    \/ \E k \in Tasks, raises \in BOOLEAN :
          connect_exit(k, raises) /\ UNCHANGED <<started, cl_frame>>
    \/ \E k \in Tasks : disconnect(k) /\ Starts /\ UNCHANGED cl_frame
    \/ \E k \in Tasks : disconnect_resume(k) /\ UNCHANGED <<started, cl_frame>>
    \/ \E k \in Tasks, ok \in BOOLEAN, n \in 0..MaxSamples :
          call_served(k, ok, n) /\ UNCHANGED <<started, cl_frame>>
    \/ \E k \in Tasks : call_raises(k) /\ UNCHANGED <<started, cl_frame>>
    \/ \E k \in Tasks : subscribe_resume(k) /\ UNCHANGED <<started, cl_frame>>
    \/ \E k \in Tasks : call_resume(k) /\ UNCHANGED <<started, cl_frame>>
    \/ \E k \in Tasks : unsubscribe_resume(k)
          /\ UNCHANGED <<started, cl_frame>>
    \/ \E i \in DOMAIN listeners : listener_loop(i)
          /\ UNCHANGED <<started, cl_frame>>
    \/ \E i \in DOMAIN listeners, ok \in BOOLEAN, n \in 0..MaxSamples :
          listener_served(i, ok, n) /\ UNCHANGED <<started, cl_frame>>
    \/ \E i \in DOMAIN listeners : listener_raises(i)
          /\ UNCHANGED <<started, cl_frame>>
    \/ \E i \in DOMAIN listeners : listener_read(i)
          /\ UNCHANGED <<started, cl_frame>>
    \/ \E i \in DOMAIN listeners, throws \in BOOLEAN :
          listener_callback(i, throws) /\ UNCHANGED <<started, cl_frame>>
    \/ \E i \in DOMAIN listeners : listener_wake(i)
          /\ UNCHANGED <<started, cl_frame>>
    \/ GwTick /\ UNCHANGED <<ct_vars, gw_frame>>
SpecClient == ClientInit /\ [][ClientNext]_vars

\* two limiters with one configuration, given the same calls
\* the second limiter is constructed no later than the first
PairInit ==
    /\ RLInit /\ CCIdle /\ GWIdle /\ CTIdle /\ CLIdle /\ MoreIdle
    /\ twin \in {RateLimiter(t) : t \in (0 - MaxTime)..0}
pair_frame == <<cc_vars, gw_vars, ct_vars, cl_vars, more_vars>>
PairNext ==
    \/ PairCheck /\ UNCHANGED pair_frame
    \/ PairDisable /\ UNCHANGED pair_frame
    \/ PairEnable /\ UNCHANGED pair_frame
    \/ PairTick /\ UNCHANGED pair_frame
SpecPair == PairInit /\ [][PairNext]_vars

\* the rate limiter with its metrics operations, under one configuration
MetricsInit ==
    /\ now = 0
    /\ config = [requests_per_minute |-> 60, burst_size |-> 2,
                 per_agent_limit |-> 45]
    /\ enabled = TRUE
    /\ global_limiter = TokenBucket(config.requests_per_minute,
                                    config.burst_size, 0)
    /\ agent_limiters = <<>>
    /\ total_requests = 0
    /\ total_rejected = 0
    /\ agent_requests = <<>>
    /\ agent_rejected = <<>>
    /\ result = Call("init", "", 0, "", "none")
    /\ costs_used = {}
    /\ CCIdle /\ GWIdle /\ CTIdle /\ CLIdle /\ TWIdle /\ MoreIdle
MetricsNext ==
    \/ Check /\ UNCHANGED rl_frame
    \/ disable /\ UNCHANGED <<costs_used, rl_frame>>
    \/ enable /\ UNCHANGED <<costs_used, rl_frame>>
    \/ Tick /\ UNCHANGED <<costs_used, rl_frame>>
    \/ get_metrics /\ UNCHANGED <<costs_used, rl_frame>>
    \/ reset_metrics /\ UNCHANGED <<costs_used, rl_frame>>
    \/ \E a \in Agents :
          get_agent_stats(a) /\ UNCHANGED <<costs_used, rl_frame>>
SpecMetrics == MetricsInit /\ [][MetricsNext]_vars

\* the adaptive limiter's control loop
\* AdaptiveRateLimiter.__init__(config)
AdaptiveInit ==
    /\ now = 0
    /\ \E rpm \in {30, 60, 120} :
          /\ config = [requests_per_minute |-> rpm, burst_size |-> 2,
                       per_agent_limit |-> 30]
          /\ adaptive = [base_rpm |-> rpm, rate |-> rpm * RateScale,
                         calls |-> 0, load |-> 0]
    /\ enabled = TRUE
    /\ global_limiter = TokenBucket(config.requests_per_minute,
                                    config.burst_size, 0)
    /\ agent_limiters = <<>>
    /\ total_requests = 0
    /\ total_rejected = 0
    /\ agent_requests = <<>>
    /\ agent_rejected = <<>>
    /\ result = Call("init", "", 0, "", "none")
    /\ costs_used = {}
    /\ CCIdle /\ GWIdle /\ CTIdle /\ CLIdle /\ TWIdle
    /\ window = <<>> /\ admitted = <<>> /\ allowed = FALSE
    /\ burst = [issued |-> 0, succeeded |-> 0] /\ read_arg = 0
AdaptiveNext ==
    \/ \E system_load \in {0, 39, 40, 80, 81, 100} :
          /\ adjust_limits(system_load)
          /\ UNCHANGED <<cc_vars, gw_vars, ct_vars, cl_vars, tw_vars,
                         window, admitted, allowed, burst, read_arg>>
    \/ Check /\ UNCHANGED rl_frame
SpecAdaptive == AdaptiveInit /\ [][AdaptiveNext]_vars

\* one sliding window counter and the clock
\* SlidingWindowCounter.__init__(window_size, max_requests)
WindowInit ==
    /\ RLInit
    /\ config = [requests_per_minute |-> 60, burst_size |-> MaxBurst,
                 per_agent_limit |-> 30]
    /\ CCIdle /\ GWIdle /\ CTIdle /\ CLIdle /\ TWIdle
    /\ \E w \in 1..2, m \in 1..3 :
          window = [window_size |-> w, max_requests |-> m,
                    requests |-> <<>>]
    /\ admitted = <<>>
    /\ allowed = FALSE
    /\ adaptive = <<>>
    /\ burst = [issued |-> 0, succeeded |-> 0] /\ read_arg = 0
WindowNext ==
    \/ is_allowed
          /\ UNCHANGED <<rl_vars, cc_vars, gw_vars, ct_vars, cl_vars,
                         tw_vars, adaptive, burst, read_arg>>
    \/ Tick
          /\ UNCHANGED <<costs_used, cc_vars, gw_vars, ct_vars, cl_vars,
                         tw_vars, more_vars>>
SpecWindow == WindowInit /\ [][WindowNext]_vars

\* the gateway answering list_topics, read and write
q_frame == <<gw_clock, allowlist, max_samples_per_read, type_names, rl_vars,
             cc_vars,
             cl_vars, tw_vars, adaptive, window, admitted, allowed, burst>>
ListTopics ==
    \E a \in Agents : call_tool("list_topics", [agent_name |-> a], TRUE, 0)
ReadWith ==
    \E a \in Agents, t \in Topics, m \in MaxSamplesArgs, ok \in BOOLEAN,
       k \in 0..MaxSamples :
        /\ _handle_read(a, t, m, ok, k)
        /\ read_arg' = m
QueriesNext ==
    \/ ListTopics /\ UNCHANGED <<read_arg, q_frame>>
    \/ ReadWith /\ UNCHANGED <<ct_vars, q_frame>>
    \/ Write /\ UNCHANGED <<read_arg, ct_vars, q_frame>>
SpecQueries == GatewayInit /\ [][QueriesNext]_vars

\* one agent with a write grant issuing MaxWrites writes within one second,
\* under global limit 60 per minute and per-agent limit 30 per minute
BurstWrite ==
    \E ok \in BOOLEAN :
        /\ burst.issued < MaxWrites
        /\ _handle_write_within(MaxWrites, "agent1", "CommandTopic", ok)
        /\ burst' = [issued |-> burst.issued + 1,
                     succeeded |-> burst.succeeded +
                                   IF tool_result'.success THEN 1 ELSE 0]
        /\ UNCHANGED <<gw_clock, allowlist, max_samples_per_read, type_names,
                       rl_vars,
                       cc_vars, ct_vars, cl_vars, tw_vars, adaptive, window,
                       admitted, allowed, read_arg>>
BurstInit == GatewayInit /\ can_agent_write_topic("agent1", "CommandTopic")
SpecBurst == BurstInit /\ [][BurstWrite]_vars

\* the bus adapter's registry from start to stop; nothing is served after
\* the stop
ManagerNext ==
    \/ last_bus_call.op # "stop" /\ Subscribe
          /\ UNCHANGED <<gw_clock, ct_vars, gw_frame>>
    \/ last_bus_call.op # "stop" /\ Unsubscribe
          /\ UNCHANGED <<gw_clock, ct_vars, gw_frame>>
    \/ last_bus_call.op # "stop" /\ GwTick /\ UNCHANGED <<ct_vars, gw_frame>>
    \/ stop /\ UNCHANGED <<gw_clock, ct_vars, gw_frame>>
SpecManager == GatewayInit /\ [][ManagerNext]_vars

\* two concurrent first checks of one agent, among other callers' checks
TasksInit ==
    /\ now = 0
    /\ config = [requests_per_minute |-> 60, burst_size |-> 4,
                 per_agent_limit |-> 30]
    /\ enabled = TRUE
    /\ global_limiter = TokenBucket(config.requests_per_minute,
                                    config.burst_size, 0)
    /\ agent_limiters = <<>>
    /\ total_requests = 0
    /\ total_rejected = 0
    /\ agent_requests = <<>>
    /\ agent_rejected = <<>>
    /\ result = Call("init", "", 0, "", "none")
    /\ costs_used = {}
    /\ bucket = TokenBucket(0, 0, 0)
    /\ lock = "free"
    /\ pc = [c \in Callers |-> "idle"]
    /\ want \in [Callers -> Costs]
    /\ ret = [c \in Callers |-> "none"]
    /\ GWIdle /\ CTIdle /\ CLIdle /\ TWIdle /\ MoreIdle
tasks_frame == <<gw_vars, ct_vars, cl_vars, tw_vars, more_vars>>
TasksNext ==
    \/ \E c \in Callers : check_enter(c) /\ UNCHANGED tasks_frame
    \/ \E c \in Callers : check_global(c) /\ UNCHANGED tasks_frame
    \/ \E c \in Callers : check_agent(c) /\ UNCHANGED tasks_frame
    \/ Check /\ UNCHANGED rl_frame
    \/ Tick /\ UNCHANGED <<costs_used, rl_frame>>
SpecTasks == TasksInit /\ [][TasksNext]_vars

\* ----------------------------------------------------------------- claims
\* a step of check_rate_limit: the only call that records a "check" result
\* or adds one to total_requests
CheckStep ==
    /\ result'.op = "check"
    /\ result' # result \/ total_requests' = total_requests + 1

BucketWithinCapacity(b) == 0 <= b.tokens /\ b.tokens <= b.capacity * Unit

\* C1: a check that the global bucket rejects leaves every per-agent bucket
\* as it was (no tokens taken, no bucket created for an unseen agent), ends
\* as a global rejection, and adds exactly 1 to total_rejected and to the
\* calling agent's rejection counter.
C1_GlobalRejectionSparesAgentBucket ==
    [][ (/\ enabled
         /\ CheckStep
         /\ ~consume(global_limiter, now, result'.tokens).ok)
        => (/\ result'.outcome = "global"
            /\ agent_limiters' = agent_limiters
            /\ total_rejected' = total_rejected + 1
            /\ agent_rejected' = Incr(agent_rejected, result'.agent)) ]_vars

\* C1 witness: an agent that has no bucket was rejected by the global
\* bucket and the rejection was counted against it.
C1_Witness ==
    /\ result.op = "check"
    /\ result.outcome = "global"
    /\ result.agent \notin DOMAIN agent_limiters
    /\ Get(agent_rejected, result.agent) = 1
    /\ total_rejected >= 1

\* C2: every bucket of the limiter holds between 0 and capacity tokens,
\* in every reachable state, whatever the idle time before an access.
C2_TokensWithinCapacity ==
    /\ BucketWithinCapacity(global_limiter)
    /\ \A a \in DOMAIN agent_limiters :
          BucketWithinCapacity(agent_limiters[a])

\* C2 witness: the first access to the full global bucket came after the
\* longest idle time, at a positive rate, so the refill overshot capacity
\* and was capped before the tokens were taken.
C2_Witness ==
    /\ total_requests = 1
    /\ result.outcome = "passed"
    /\ global_limiter.rate > 0
    /\ global_limiter.last_update = MaxTime
    /\ global_limiter.tokens =
          (global_limiter.capacity - result.tokens) * Unit

\* C3: two concurrent consume calls both return true only if the bucket
\* could pay for both: its initial tokens plus all it can have refilled
\* cover the sum of the two costs.  The bucket never goes below zero.
C3_AtMostOneConsumerSucceeds ==
    /\ bucket.tokens >= 0
    /\ (ret["c1"] = "true" /\ ret["c2"] = "true")
          => (want["c1"] + want["c2"]) * Unit
                 <= bucket.capacity * Unit + now * bucket.rate

\* C3 witness: with no refill, both calls ran to the end, each cost alone
\* fits the bucket, and only one of them was served.
C3_Witness ==
    /\ pc["c1"] = "done" /\ pc["c2"] = "done"
    /\ now = 0
    /\ want["c1"] <= bucket.capacity /\ want["c2"] <= bucket.capacity
    /\ ret["c1"] = "true" /\ ret["c2"] = "false"

\* C4: with no time elapsed and only unit-cost checks of a single agent,
\* exactly floor(burst_size / 2) checks are admitted: none of the first
\* floor(burst_size / 2) is rejected, every later one is, and the first
\* rejected one is rejected by the agent's bucket (with RateLimitExceeded
\* when the per-agent rate is positive) after the global bucket admitted it.
C4_AgentAdmittedForHalfTheBurst ==
    \A a \in Agents :
        (now = 0 /\ DOMAIN agent_requests \subseteq {a}
                 /\ costs_used \subseteq {1})
        => LET n == Get(agent_requests, a)
               half == config.burst_size \div 2
               enforced == result.op = "check" /\ result.outcome # "disabled"
           IN  /\ Get(agent_rejected, a) = IF n <= half THEN 0 ELSE n - half
               /\ (enforced /\ 1 <= n /\ n <= half)
                     => result.outcome = "passed"
               /\ (enforced /\ n = half + 1)
                     => /\ result.outcome = "agent"
                        /\ global_limiter.tokens =
                              (config.burst_size - n) * Unit
                        /\ config.per_agent_limit > 0
                              => result.raised = "RateLimitExceeded"

\* C4 witness: burst size 4, agent1 alone made three unit-cost checks at
\* time 0; the third was rejected by its bucket while the global bucket
\* still holds a token.
C4_Witness ==
    /\ now = 0
    /\ config.burst_size = 4
    /\ DOMAIN agent_requests = {"agent1"}
    /\ costs_used = {1}
    /\ agent_requests["agent1"] = 3
    /\ Get(agent_rejected, "agent1") = 1
    /\ result.outcome = "agent"
    /\ result.raised = "RateLimitExceeded"
    /\ global_limiter.tokens >= Unit

\* C5: a check of cost n by agent b is admitted whenever the global bucket
\* holds at least n tokens and b's bucket does (a bucket not yet created
\* counts with its full capacity), whatever the other agents did before.
C5_AgentsAreIsolated ==
    [][ \A b \in Agents, n \in Costs :
          (/\ enabled
           /\ CheckStep
           /\ result'.agent = b
           /\ result'.tokens = n
           /\ global_limiter.tokens >= n * Unit
           /\ IF b \in DOMAIN agent_limiters
              THEN agent_limiters[b].tokens >= n * Unit
              ELSE config.burst_size \div 2 >= n)
          => (/\ result'.outcome = "passed"
              /\ total_rejected' = total_rejected
              /\ agent_rejected' = agent_rejected) ]_vars

\* C5 witness: agent1 has been rejected by its own, now empty, bucket and
\* the check of agent2 that followed was admitted.
C5_Witness ==
    /\ "agent1" \in DOMAIN agent_limiters
    /\ agent_limiters["agent1"].tokens < Unit
    /\ Get(agent_rejected, "agent1") >= 1
    /\ result.op = "check"
    /\ result.agent = "agent2"
    /\ result.outcome = "passed"
    /\ Get(agent_rejected, "agent2") = 0

\* C6: when the global bucket admits a check and the agent's bucket rejects
\* it, the global bucket ends with its refilled tokens less the cost: the
\* tokens taken are not given back.
C6_NoRefundOnAgentRejection ==
    [][ (enabled /\ CheckStep /\ result'.outcome = "agent")
        => (/\ consume(global_limiter, now, result'.tokens).ok
            /\ global_limiter'.tokens =
                  Refill(global_limiter, now).tokens
                      - result'.tokens * Unit) ]_vars

\* C6 witness: two checks of one agent were rejected by its bucket and the
\* global bucket has been drained to zero on the way.
C6_Witness ==
    /\ result.op = "check"
    /\ result.outcome = "agent"
    /\ Get(agent_rejected, result.agent) >= 2
    /\ DOMAIN agent_requests = {result.agent}
    /\ global_limiter.tokens = 0

\* C7: a check made while the limiter is disabled raises nothing, and no
\* step taken while it is disabled raises total_rejected or any agent's
\* rejection counter.
C7_NoRejectionWhileDisabled ==
    /\ [][ (~enabled /\ CheckStep) => result'.raised = "none" ]_vars
    /\ [][ ~enabled
           => (/\ total_rejected' <= total_rejected
               /\ \A a \in Agents :
                     Get(agent_rejected', a) <= Get(agent_rejected, a))
       ]_vars

\* C7 witness: disabled, nothing rejected so far, and a check has just
\* returned although the global bucket cannot pay its cost.
C7_Witness ==
    /\ ~enabled
    /\ result.op = "check"
    /\ result.outcome = "disabled"
    /\ result.raised = "none"
    /\ global_limiter.tokens < result.tokens * Unit
    /\ total_rejected = 0

\* C8 (as claimed): every check made while the limiter is disabled adds 1
\* to total_requests and to the calling agent's request counter.
C8_DisabledChecksAreCounted ==
    [][ (~enabled /\ CheckStep)
        => (/\ total_requests' = total_requests + 1
            /\ agent_requests' = Incr(agent_requests, result'.agent)) ]_vars

\* C9: disable(), enable() and every step taken while the limiter is
\* disabled leave the global bucket and every per-agent bucket unchanged.
C9_TogglingKeepsBuckets ==
    [][ (\/ ~enabled
         \/ enabled' # enabled
         \/ (result'.op \in {"enable", "disable"} /\ result' # result))
        => (/\ global_limiter' = global_limiter
            /\ agent_limiters' = agent_limiters) ]_vars

\* C9 witness: enable() has just returned and the buckets are still as
\* depleted as the checks made before left them.
C9_Witness ==
    /\ enabled
    /\ result.op = "enable"
    /\ global_limiter.tokens = 0
    /\ global_limiter.capacity > 0
    /\ \E a \in DOMAIN agent_limiters :
          agent_limiters[a].tokens < agent_limiters[a].capacity * Unit

\* C10 (as claimed): every step in which a subscribe, read or write reaches
\* the bus adapter also passes an admitted rate-limit check for the calling
\* agent.
C10_BusCallsAreRateLimited ==
    [][ (/\ bus_calls' = bus_calls + 1
         /\ last_bus_call'.op \in {"subscribe", "read", "write"})
        => (/\ total_requests' = total_requests + 1
            /\ agent_requests' = Incr(agent_requests, last_bus_call'.agent)
            /\ total_rejected' = total_rejected) ]_vars

\* every subscription id the gateway has returned, by the agents' sessions
TrackedIds ==
    UNION {{active_agents[a][i] : i \in DOMAIN active_agents[a]} :
              a \in DOMAIN active_agents}

\* C11: a subscribe, read or write whose agent lacks the grant the tool
\* needs returns success = false and changes nothing else: no bus call is
\* made or recorded, no subscription, reader or writer is created, no
\* session entry is created or changed, and the rate limiter is left alone.
C11_DeniedCallHasNoEffect ==
    [][ (\/ /\ tool_result'.tool \in {"subscribe", "read"}
            /\ ~can_agent_read_topic(tool_result'.agent, tool_result'.topic)
         \/ /\ tool_result'.tool = "write"
            /\ ~can_agent_write_topic(tool_result'.agent, tool_result'.topic))
        => (/\ ~tool_result'.success
            /\ UNCHANGED <<subscriptions, data_readers, data_writers,
                           active_agents, bus_calls, last_bus_call,
                           rl_vars>>) ]_vars

\* C11 witness: a subscribe was denied to an agent that has no session
\* entry, while another agent holds a subscription and made the last bus
\* call.
C11_Witness ==
    /\ tool_result.tool = "subscribe"
    /\ tool_result.error = "permission"
    /\ ~tool_result.success
    /\ tool_result.agent \notin DOMAIN active_agents
    /\ DOMAIN subscriptions # {}
    /\ bus_calls >= 1
    /\ last_bus_call.agent # tool_result.agent

\* C12 (as claimed): whatever the tool name and the argument mapping, what
\* call_tool returns is a dict that carries the key "success".
C12_EveryResultCarriesSuccess ==
    tool_response.kind # "none"
    => (tool_response.kind = "dict" /\ "success" \in tool_response.keys)

\* C13 (as claimed): a successful subscribe returns an id that no subscribe
\* returned before and that is not in the registry, so that no record of the
\* registry is replaced.
C13_SubscriptionIdsAreFresh ==
    [][ (/\ tool_result'.tool = "subscribe"
         /\ tool_result'.success
         /\ active_agents' # active_agents)
        => (/\ tool_result'.subscription_id \notin TrackedIds
            /\ tool_result'.subscription_id \notin DOMAIN subscriptions)
      ]_vars

\* C14: an unsubscribe call succeeds whatever the id; it leaves the record
\* of every other subscription as it was and adds none; with an id that is
\* not in the registry (never issued, or unsubscribed before) it leaves the
\* registry unchanged, so a second unsubscribe of an id changes nothing.
C14_UnsubscribeIsIdempotentAndTotal ==
    [][ (tool_result'.tool = "unsubscribe" /\ bus_calls' = bus_calls + 1)
        => LET id == tool_result'.subscription_id
           IN  /\ tool_result'.success
               /\ DOMAIN subscriptions' \subseteq DOMAIN subscriptions \ {id}
               /\ \A x \in DOMAIN subscriptions \ {id} :
                     /\ x \in DOMAIN subscriptions'
                     /\ subscriptions'[x] = subscriptions[x]
               /\ id \notin DOMAIN subscriptions
                     => subscriptions' = subscriptions
               /\ unsubscribe(subscriptions', id) = subscriptions' ]_vars

\* C14 witness: an unsubscribe of an id that no subscribe ever returned has
\* succeeded while two subscriptions to one topic are in the registry.
C14_Witness ==
    /\ tool_result.tool = "unsubscribe"
    /\ tool_result.success
    /\ tool_result.subscription_id \notin TrackedIds
    /\ \E x, y \in DOMAIN subscriptions : x # y /\ x[1] = y[1]

\* C15 (as claimed): every id recorded in an agent's session is the id of a
\* subscription that is in the registry and active.
C15_SessionIdsAreActive ==
    \A a \in DOMAIN active_agents :
        \A i \in DOMAIN active_agents[a] :
            /\ active_agents[a][i] \in DOMAIN subscriptions
            /\ subscriptions[active_agents[a][i]].active

\* C16 (as claimed): a listener that tests its loop condition after its
\* subscription has been unsubscribed (by topic or by id) ends there.
C16_DeactivatedListenerStops ==
    [][ \A i \in DOMAIN listeners :
          (/\ listeners[i].pc = "loop"
           /\ listeners'[i].pc # "loop"
           /\ listeners[i].subscription_id \notin DOMAIN subscriptions)
          => listeners'[i].pc = "done" ]_vars

\* C17 (as claimed): every subscription that was made with a callback and
\* is active in the registry has exactly one listener task that has not
\* ended.
C17_OneListenerPerActiveSubscription ==
    \A i \in DOMAIN listeners :
        listeners[i].subscription_id \in DOMAIN subscriptions
        => Cardinality({j \in DOMAIN listeners :
                           /\ listeners[j].subscription_id =
                                 listeners[i].subscription_id
                           /\ listeners[j].pc # "done"}) = 1

\* C18 (as claimed): when disconnect returns, every subscription the client
\* made has been unsubscribed, none is left in the registry, and a listener
\* that tests its loop condition afterwards ends.
C18_TeardownUnsubscribesAll ==
    [][ /\ (_connected /\ ~_connected') => DOMAIN subscriptions' = {}
        /\ \A i \in DOMAIN listeners :
              (/\ ~_connected
               /\ listeners[i].pc = "loop"
               /\ listeners'[i].pc # "loop")
              => listeners'[i].pc = "done" ]_vars

\* C19 (as claimed): a listener whose callback has run, throwing or not,
\* goes on to the sleep that precedes its next iteration.
C19_ThrowingCallbackKeepsListener ==
    [][ \A i \in DOMAIN listeners :
          (listeners[i].pc = "callback" /\ listeners'[i].pc # "callback")
          => listeners'[i].pc = "sleep" ]_vars

\* C20: two limiters with one configuration, given the same checks and the
\* same enable/disable calls at the same times, agree after every call on
\* how the call ended (admitted, rejected by which bucket, what was raised),
\* on the enabled flag and on all four counters.
C20_SameCallsSameOutcomes ==
    /\ twin.result = result
    /\ twin.enabled = enabled
    /\ twin.total_requests = total_requests
    /\ twin.total_rejected = total_rejected
    /\ twin.agent_requests = agent_requests
    /\ twin.agent_rejected = agent_rejected

\* C20 witness: time has passed, both limiters have admitted a check and
\* rejected a check, and both have just answered a check while disabled.
C20_Witness ==
    /\ now >= 1
    /\ total_requests >= 2
    /\ total_rejected >= 1
    /\ total_rejected < total_requests
    /\ ~enabled
    /\ result.outcome = "disabled"
    /\ twin.result.outcome = "disabled"
    /\ twin.total_rejected = total_rejected

\* C28: consume(n) on the global bucket first refills by elapsed * rate,
\* capped at capacity, and sets last_update to now; it admits iff the
\* refilled count is at least n; on admission exactly n tokens are taken, on
\* refusal the count stays at its refilled value. Rate and capacity are not
\* changed.
C28_ConsumeRefillsThenTestsThenSubtracts ==
    [][ (enabled /\ CheckStep)
        => LET b == global_limiter
               n == result'.tokens
               refilled == Min(b.capacity * Unit,
                               b.tokens + (now - b.last_update) * b.rate)
               ok == result'.outcome # "global"
           IN  /\ global_limiter'.last_update = now
               /\ ok <=> refilled >= n * Unit
               /\ global_limiter'.tokens =
                     IF ok THEN refilled - n * Unit ELSE refilled
               /\ global_limiter'.rate = b.rate
               /\ global_limiter'.capacity = b.capacity ]_vars

\* C28 witness: after time has passed, a check was refused by the global
\* bucket, which was refilled to a positive count below the cost and keeps
\* that count.
C28_Witness ==
    /\ result.op = "check"
    /\ result.outcome = "global"
    /\ now >= 1
    /\ global_limiter.last_update = now
    /\ global_limiter.tokens > 0
    /\ global_limiter.tokens < result.tokens * Unit

\* C29: while no time has passed and every enforced check cost one token,
\* the new global bucket of capacity C admitted the first C checks and
\* refused every later one: after n checks it holds max(C - n, 0) tokens, and
\* the n-th check was refused by it iff n > C.
C29_FreshBucketAdmitsItsCapacity ==
    (now = 0 /\ costs_used \subseteq {1})
    => LET C == global_limiter.capacity
           n == total_requests
       IN  /\ global_limiter.tokens = (IF n < C THEN C - n ELSE 0) * Unit
           /\ (result.op = "check" /\ result.outcome # "disabled")
                 => (result.outcome = "global" <=> n > C)

\* C29 witness: capacity 2, three unit-cost checks at time 0, the third
\* refused by the global bucket.
C29_Witness ==
    /\ now = 0
    /\ costs_used = {1}
    /\ global_limiter.capacity = 2
    /\ total_requests = 3
    /\ total_rejected = 1
    /\ result.outcome = "global"
    /\ global_limiter.tokens = 0

\* C30: a check either returns or raises RateLimitExceeded, and nothing
\* else: it raises RateLimitExceeded iff the limiter is enabled and the
\* global bucket or the agent's bucket cannot admit the cost.
C30_OnlyRateLimitExceeded ==
    [][ CheckStep
        => LET n == result'.tokens
               g == consume(global_limiter, now, n)
               a == consume(_get_agent_limiter(agent_limiters,
                                result'.agent, now)[result'.agent], now, n)
           IN  /\ result'.raised \in {"none", "RateLimitExceeded"}
               /\ result'.raised = "RateLimitExceeded"
                     <=> (enabled /\ (~g.ok \/ ~a.ok)) ]_vars

\* C22: no operation other than reset_metrics lowers a request or rejection
\* counter (total or per agent), and reset_metrics sets all of them to zero
\* together.
C22_CountersOnlyFallOnReset ==
    [][ /\ result'.op # "reset_metrics"
           => /\ total_requests' >= total_requests
              /\ total_rejected' >= total_rejected
              /\ \A a \in Agents :
                    /\ Get(agent_requests', a) >= Get(agent_requests, a)
                    /\ Get(agent_rejected', a) >= Get(agent_rejected, a)
        /\ (result'.op = "reset_metrics" /\ result' # result)
           => /\ total_requests' = 0
              /\ total_rejected' = 0
              /\ \A a \in Agents :
                    Get(agent_requests', a) = 0 /\ Get(agent_rejected', a) = 0
      ]_vars

\* C22 witness: counters that had been raised by checks and rejections were
\* reset, while the buckets still show the tokens those checks took.
C22_Witness ==
    /\ result.op = "reset_metrics"
    /\ total_requests = 0
    /\ total_rejected = 0
    /\ agent_requests = <<>>
    /\ agent_rejected = <<>>
    /\ DOMAIN agent_limiters = Agents
    /\ global_limiter.tokens < global_limiter.capacity * Unit

\* C21: when the agent has issued 31 writes within one second and the bus
\* failed none of them, 30 of them succeeded and the 31st was refused by the
\* gateway without reaching the bus.
C21_ThirtyFirstWriteIsRefused ==
    (burst.issued = 31 /\ bus_calls = burst.succeeded)
    => /\ burst.succeeded = 30
       /\ ~tool_result.success

\* C23: the adaptive limiter's global rate never exceeds the originally
\* configured rate, requests_per_minute / 60.
C23_RateNeverAboveOriginal ==
    adaptive.rate <= adaptive.base_rpm * RateScale

\* C24: calling adjust_limits(load) once more with the same load leaves the
\* rate as the first call left it.
C24_AdjustLimitsIsIdempotent ==
    [][ adaptive'.calls = adaptive.calls + 1
        => adjusted_rate(adaptive'.rate, adaptive'.base_rpm, adaptive'.load)
              = adaptive'.rate ]_vars

\* C25: every closed interval of length window_size holds at most
\* max_requests timestamps of admitted calls; an admitted call records its
\* timestamp and a refused call records none.
C25_AtMostMaxRequestsPerWindow ==
    [][ /\ \A t \in 0..MaxTime :
              Cardinality({i \in DOMAIN admitted' :
                              /\ t <= admitted'[i]
                              /\ admitted'[i] <= t + window.window_size})
                 <= window.max_requests
        /\ (now' = now /\ allowed')
              => /\ admitted' = Append(admitted, now)
                 /\ window'.requests # <<>>
                 /\ window'.requests[Len(window'.requests)] = now
        /\ (now' = now /\ ~allowed')
              => /\ admitted' = admitted
                 /\ Len(window'.requests) <= Len(window.requests)
                 /\ \A i \in DOMAIN window'.requests :
                       \E j \in DOMAIN window.requests :
                           window'.requests[i] = window.requests[j] ]_vars

\* C25 witness: the window has moved on (more calls were admitted in total
\* than one window holds), is full again, and the last call was refused.
C25_Witness ==
    /\ ~allowed
    /\ Len(admitted) > window.max_requests
    /\ Len(window.requests) = window.max_requests
    /\ window.requests[1] < now

\* C26: a read that reaches the bus adapter forwards
\* min(requested max_samples, max_samples_per_read), where an omitted
\* argument counts as 10; the forwarded value never exceeds the ceiling.
C26_ForwardedMaxSamplesIsClamped ==
    [][ (bus_calls' = bus_calls + 1 /\ last_bus_call'.op = "read")
        => LET requested == IF read_arg' = 0 THEN 10 ELSE read_arg'
           IN  /\ last_bus_call'.max_samples =
                     IF requested < max_samples_per_read THEN requested
                     ELSE max_samples_per_read
               /\ last_bus_call'.max_samples <= max_samples_per_read ]_vars

\* C26 witness: a read asking for 20 samples under a ceiling of 5 went to
\* the bus adapter with 5.
C26_Witness ==
    /\ last_bus_call.op = "read"
    /\ read_arg = 20
    /\ max_samples_per_read = 5
    /\ last_bus_call.max_samples = 5

\* C27: list_topics answers with exactly the topics the allowlist grants
\* the agent, readable and writable; an agent without an allowlist entry gets
\* two empty lists, and its reads and writes are denied.
C27_ListTopicsReturnsTheGrants ==
    LET a == tool_result.agent
        granted(kind) ==
            {t \in Topics : a \in DOMAIN allowlist /\ t \in allowlist[a][kind]}
    IN  /\ tool_result.tool = "list_topics"
           => /\ tool_result.success
              /\ tool_response.kind = "dict"
              /\ tool_response.topics.readable = granted("read")
              /\ tool_response.topics.writable = granted("write")
              /\ a \notin DOMAIN allowlist
                    => /\ tool_response.topics.readable = {}
                       /\ tool_response.topics.writable = {}
        /\ (tool_result.tool \in {"read", "write"}
                /\ a \notin DOMAIN allowlist)
           => /\ ~tool_result.success
              /\ tool_result.error = "permission"

\* C27 witness: list_topics for an agent with read grants only answered with
\* a non-empty readable list and an empty writable list.
C27_Witness ==
    /\ tool_result.tool = "list_topics"
    /\ tool_result.agent \in DOMAIN allowlist
    /\ allowlist[tool_result.agent].write = {}
    /\ tool_response.topics.readable # {}
    /\ tool_response.topics.writable = {}

\* C33: after a successful subscribe, read or write the gateway holds a
\* session for the calling agent.
C33_FirstSuccessfulOperationOpensSession ==
    [][ (/\ bus_calls' = bus_calls + 1
         /\ tool_result'.tool \in {"subscribe", "read", "write"}
         /\ tool_result'.success)
        => tool_result'.agent \in DOMAIN active_agents' ]_vars

\* C35: fewer rejections than requests, in total and for each agent, and
\* the agents' counts add up to the totals.
C35_CountersAreConsistent ==
    /\ total_rejected <= total_requests
    /\ \A a \in Agents : Get(agent_rejected, a) <= Get(agent_requests, a)
    /\ DOMAIN agent_requests \subseteq Agents
    /\ DOMAIN agent_rejected \subseteq Agents
    /\ Get(agent_requests, "agent1") + Get(agent_requests, "agent2")
          = total_requests
    /\ Get(agent_rejected, "agent1") + Get(agent_rejected, "agent2")
          = total_rejected

\* C35 witness: after a reset, the first check counted was a rejection,
\* while both agents had made requests before the reset.
C35_Witness ==
    /\ result.op = "check"
    /\ result.raised = "RateLimitExceeded"
    /\ total_requests = 1
    /\ total_rejected = 1
    /\ DOMAIN agent_limiters = Agents
    /\ Get(agent_requests, result.agent) = 1
    /\ Get(agent_rejected, result.agent) = 1

\* C36: a low-load call made while the rate differs from the original rate
\* brings the rate strictly closer to the original rate (so finitely many
\* of them reach it), and a low-load call made at the original rate leaves it
\* there.
C36_LowLoadRestoresOriginalRate ==
    [][ (adaptive'.calls = adaptive.calls + 1 /\ 2 * adaptive'.load < 80)
        => LET original_rate == adaptive.base_rpm * RateScale
               dist(r) == IF r < original_rate THEN original_rate - r
                          ELSE r - original_rate
           IN  IF adaptive.rate = original_rate
               THEN adaptive'.rate = original_rate
               ELSE dist(adaptive'.rate) < dist(adaptive.rate) ]_vars

\* C37: the wait time reported with a rejection is long enough: a bucket
\* that refused cost tokens (cost within its capacity) holds cost tokens
\* after the reported time, if nothing else is taken from it; and the
\* reported time is not zero, the bucket lacking the tokens.
C37_ReportedWaitIsSufficient ==
    [][ (CheckStep /\ result'.raised = "RateLimitExceeded")
        => LET n == result'.tokens
               b == IF result'.outcome = "global" THEN global_limiter'
                    ELSE agent_limiters'[result'.agent]
               hundredths == reported_wait(b, n)
           IN  n <= b.capacity
               => /\ hundredths > 0
                  /\ 100 * b.tokens + hundredths * b.rate
                        >= 100 * n * Unit ]_vars

\* C38: get_agent_stats leaves the limiter as it was: the agents that
\* get_metrics reports, the counters and the buckets.
C38_GetAgentStatsChangesNothing ==
    [][ result'.op = "get_agent_stats"
        => /\ DOMAIN agent_requests' \cup DOMAIN agent_limiters'
                 = DOMAIN agent_requests \cup DOMAIN agent_limiters
           /\ \A a \in Agents :
                 /\ Get(agent_requests', a) = Get(agent_requests, a)
                 /\ Get(agent_rejected', a) = Get(agent_rejected, a)
           /\ UNCHANGED <<total_requests, total_rejected, global_limiter,
                          agent_limiters, enabled>> ]_vars

\* C32: adjust_limits changes nothing but the global rate: the agents'
\* buckets, the global bucket's tokens and capacity, the enabled flag and the
\* counters stay as they were; for a load from threshold/2 to threshold the
\* global rate stays as well.
C32_AdjustLimitsTouchesOnlyTheGlobalRate ==
    [][ adaptive'.calls = adaptive.calls + 1
        => /\ agent_limiters' = agent_limiters
           /\ global_limiter'.tokens = global_limiter.tokens
           /\ global_limiter'.capacity = global_limiter.capacity
           /\ enabled' = enabled
           /\ UNCHANGED <<total_requests, total_rejected, agent_requests,
                          agent_rejected>>
           /\ adaptive'.base_rpm = adaptive.base_rpm
           /\ (40 <= adaptive'.load /\ adaptive'.load <= 80)
                 => adaptive'.rate = adaptive.rate ]_vars

\* C32 witness: with an agent's bucket in use and the global rate below the
\* original, the last call had a load between threshold/2 and threshold.
C32_Witness ==
    /\ adaptive.calls >= 2
    /\ adaptive.load \in 40..80
    /\ adaptive.rate < adaptive.base_rpm * RateScale
    /\ agent_limiters # <<>>
    /\ global_limiter.tokens < global_limiter.capacity * Unit
    /\ total_rejected >= 1

\* C34: the poller does not wait for its callback: when its read has
\* returned, it goes on to its sleep (or ends, the read having failed), the
\* callback being left to run on its own, so the poller is never found
\* waiting in its callback.
C34_CallbackDoesNotBlockThePoller ==
    [][ \A i \in DOMAIN listeners :
           (listeners[i].pc = "resume" /\ listeners'[i].pc # "resume")
           => listeners'[i].pc \in {"sleep", "done"}
      ]_vars

\* C39: the registry holds exactly the active subscriptions: every handle
\* in it is active, and after stop it is empty, so that the reported
\* active_subscriptions, the size of the registry, is zero.
C39_RegistryHoldsTheActiveSubscriptions ==
    /\ \A id \in DOMAIN subscriptions : subscriptions[id].active
    /\ last_bus_call.op = "stop" => Cardinality(DOMAIN subscriptions) = 0

\* C31: an agent's bucket, once in the map, is never removed or replaced:
\* it keeps its rate and capacity and no step leaves it with more tokens
\* than its refill gives, so no check resets it to full; a bucket enters
\* the map only in a step in which the global bucket admitted a check; and
\* two concurrent first checks of one agent charge one bucket, so after
\* both have passed with no time elapsed and no other check of that agent,
\* the bucket lacks the tokens of both.
C31_OneBucketPerAgentNeverReplaced ==
    [][ /\ \A a \in DOMAIN agent_limiters :
              /\ a \in DOMAIN agent_limiters'
              /\ agent_limiters'[a].rate = agent_limiters[a].rate
              /\ agent_limiters'[a].capacity = agent_limiters[a].capacity
              /\ agent_limiters'[a].tokens
                    <= Refill(agent_limiters[a], now').tokens
        /\ \A a \in DOMAIN agent_limiters' \ DOMAIN agent_limiters :
              /\ a \in DOMAIN agent_requests'
              /\ global_limiter'.tokens
                    < Refill(global_limiter, now').tokens
        /\ ( /\ \A c \in Callers : pc'[c] = "done" /\ ret'[c] = "passed"
             /\ now' = 0
             /\ agent_requests'[first_agent] = Cardinality(Callers) )
           => agent_limiters'[first_agent].tokens
                 = (per_agent_capacity - want'["c1"] - want'["c2"]) * Unit
      ]_vars

\* both tasks' first checks of the agent have passed and both charges are
\* in the one bucket
C31_Witness ==
    /\ \A c \in Callers : pc[c] = "done" /\ ret[c] = "passed"
    /\ now = 0
    /\ agent_requests[first_agent] = Cardinality(Callers)
    /\ first_agent \in DOMAIN agent_limiters
    /\ agent_limiters[first_agent].tokens = 0

=============================================================================
